---- MODULE Spec2Model ----
(***************************************************************************)
(* A model of the automation workflow of claude-bridge:                    *)
(*   AutomatedBridge.run_automated_workflow, DesktopLauncher and           *)
(*   ResponseMonitor of automation_helper.py, ClaudeBridge of              *)
(*   bridge_helper.py.                                                     *)
(*                                                                         *)
(* One client thread runs an entry point (the whole workflow, or           *)
(* read_response alone) statement by statement; the environment is the     *)
(* external actor that writes, rewrites or removes the response file and a *)
(* second thread that may call monitor.cancel().  Time is counted in ticks *)
(* of half a second and passes only while the client thread sleeps.  The   *)
(* code reads the clock only as time.time() - start_time, so the model     *)
(* counts now from the latest start_time = time.time().                    *)
(*                                                                         *)
(* The workflow runs under Spec; SpecDisabled is the workflow with         *)
(* config.enabled false, and SpecMonitor is wait_for_response called       *)
(* directly and repeatedly on one monitor.                                 *)
(*                                                                         *)
(* The classes that do not take part in the workflow are run on their own, *)
(* each under a specification of its own: ErrorHandler.classify_error      *)
(* (SpecClassify), handle_error (SpecHandle) and retry_on_error (SpecRetry), *)
(* AutomationConfig (SpecConfigLoad, SpecConfigSave), ProposalExecutor's   *)
(* apply_all_code_files (SpecApply), apply_code_file (SpecApplyFile) and   *)
(* execute_all_steps (SpecSteps), CheckpointManager's create_checkpoint and *)
(* rollback (SpecCheckpoint) and list_checkpoints (SpecList).              *)
(***************************************************************************)
EXTENDS Integers, Sequences, FiniteSets, TLC

\* ---------------------------------------------------------------- bounds
MaxRetries == 2          \* config.max_retries ranges over 1..MaxRetries
MaxLaunchTimeout == 1    \* config.launch_timeout, seconds, 1..MaxLaunchTimeout
MaxResponseTimeout == 2  \* config.response_timeout, seconds, 1..MaxResponseTimeout
MaxPollingTicks == 3     \* config.polling_interval, half seconds, 1..MaxPollingTicks
MaxReadRetries == 2      \* read_response(max_retries) called directly: 0..MaxReadRetries
MaxFileChanges == 1      \* writes/removals of the response file by the external actor
MaxRetryOnError == 3     \* retry_on_error: largest max_retries
MaxDelay == 2            \* retry_on_error: largest delay
MaxBackoff == 2          \* retry_on_error: largest backoff
MaxDocMembers == 2       \* config file: members written into the object before the load
MaxAssignments == 2      \* config object: fields assigned before the save
MaxCodeFiles == 2        \* apply_all_code_files: longest code_files list
MaxCheckpointFiles == 2  \* create_checkpoint: longest files list
MaxNewFiles == 1         \* rollback: longest new_files list
MaxChanges == 1          \* files changed between checkpoint and rollback
MaxWaits == 2            \* wait_for_response calls made on one monitor
MaxSteps == 3            \* execute_all_steps: longest steps list
MaxCheckpoints == 3      \* list_checkpoints: entries of the checkpoint directory

\* ------------------------------------------------------ program constants
TicksPerSecond == 2            \* the 0.5 s sleep of wait_until_ready is one tick
ReadyPollTicks == 1            \* time.sleep(0.5) in wait_until_ready
LaunchRetrySleepSeconds == 1   \* time.sleep(1) in launch_with_retry
ReadRetrySleepSeconds == 1     \* time.sleep(1) in read_response
ReadDefaultRetries == 3        \* read_response(self, max_retries: int = 3)

\* ------------------------------------------------------------ data values
None == "None"
NotReturned == <<>>      \* a call that has not returned yet
Returned(v) == <<v>>     \* a call that returned v

\* What the response file may hold.  Absent: no file at the path.
Absent == "absent"
Malformed == "{ invalid json"          \* json.loads raises JSONDecodeError
Undecodable == "<not utf-8>"           \* read_text raises UnicodeDecodeError
EmptyObject == "{}"                    \* parses to the empty dict
Document == "{\"analysis\": {}}"       \* parses to a non-empty dict
FileContents == {Absent, Malformed, Undecodable, EmptyObject, Document}

EmptyDict == "dict()"
AnalysisDict == "dict(analysis=dict())"

\* json.loads on the text of the file: the parsed value, or the error raised.
JSONDecodeError == "JSONDecodeError"
json_loads(text) ==
  CASE text = EmptyObject -> EmptyDict
    [] text = Document -> AnalysisDict
    [] OTHER -> JSONDecodeError

\* Python truthiness of a value read_response can return.
Truthy(v) == v \notin {None, EmptyDict}

NoResponse == "<no response key>"

\* The three dictionaries run_automated_workflow returns.
ManualModeResult(id) ==
  [kind |-> "returned", request_id |-> id, status |-> "manual_mode", response |-> NoResponse]

TimeoutResult(id) ==
  [kind |-> "returned", request_id |-> id, status |-> "timeout", response |-> NoResponse]

SuccessResultWithoutResponse(id, response) ==
  [kind |-> "returned", request_id |-> id, status |-> "success", response |-> NoResponse]
SuccessResult(id, response) ==
  [kind |-> "returned", request_id |-> id, status |-> "success", response |-> response]

Raised == [kind |-> "raised", request_id |-> None, status |-> None, response |-> NoResponse]
Running == [kind |-> "running", request_id |-> None, status |-> None, response |-> NoResponse]

\* request_id = f"req_{timestamp}", the timestamp read from the clock to the second
RequestIds == {"req_20250101_120000", "req_20250101_120001"}

VARIABLES
  config,              \* AutomationConfig, fixed after load
  entry,               \* the method the client called: "workflow", "read" or "wait"
  pc,                  \* the client thread's position
  now,                 \* time.time(), in ticks
  wake,                \* end of the running time.sleep
  file,                \* content of the response file
  changes,             \* writes of the external actor so far
  monitor,             \* bridge.monitor: None or "bound"
  cancelled,           \* monitor.cancelled
  current_request_id,  \* bridge.current_request_id
  request_id,          \* local request_id of run_automated_workflow
  attempt,             \* loop variable of launch_with_retry / read_response
  lwr_ret,             \* value launch_with_retry returned
  start_time,          \* local start_time of wait_until_ready / wait_for_response
  wfr_ret,             \* value wait_for_response returned
  rr_max,              \* parameter max_retries of read_response
  rr_ret,              \* value read_response returned
  result,              \* what the entry point returned to the client
  \* history
  calls,               \* how often each method was invoked
  attempts,            \* launch_with_retry: per attempt, what launch / wait_until_ready gave
  polls,               \* wait_for_response: the existence checks made, each [t, exists]
  wfr_hist,            \* wait_for_response: sleeps, file sightings, first cancel, return time
  reads,               \* read_response: per attempt its outcome; the sleeps taken,
                       \* the ticks slept, the value parsed
  \* the components that are run on their own, each under its own specification
  cls,                 \* ErrorHandler.classify_error / handle_error: the call in progress
  retry,               \* ErrorHandler.retry_on_error: its arguments, locals and history
  conf,                \* AutomationConfig: the config file, the object's fields, the call
  fs,                  \* the files ProposalExecutor and CheckpointManager work on
  cpm,                 \* CheckpointManager: the checkpoint directory, the call in progress
  pex                  \* ProposalExecutor: the call in progress (arguments, locals, results)

workflowVars == <<config, entry, pc, now, wake, file, changes, monitor, cancelled,
                  current_request_id, request_id, attempt, lwr_ret, start_time, wfr_ret,
                  rr_max, rr_ret, result, calls, attempts, polls, wfr_hist, reads>>

componentVars == <<cls, retry, conf, fs, cpm, pex>>

vars == <<workflowVars, componentVars>>

\* the value of the variables of a part of the program that a specification does not run
Unused == "unused"

histVars == <<calls, attempts, polls, wfr_hist, reads>>

Seconds(s) == s * TicksPerSecond

WfrPcs == {"wfr_start", "wfr_loop", "wfr_cancel", "wfr_exists", "wfr_sleep"}
SleepPcs == {"wur_sleep", "lwr_sleep", "wfr_sleep", "rr_sleep"}

Called(m) == [calls EXCEPT ![m] = @ + 1]

\* The AutomationConfig objects the workflow runs with; enabled is a field of
\* the object like the others.
AutomationConfigs(enabled) ==
  [enabled : enabled,
   auto_launch_desktop : BOOLEAN,
   max_retries : 1..MaxRetries,
   launch_timeout : 1..MaxLaunchTimeout,
   response_timeout : 1..MaxResponseTimeout,
   polling_interval : 1..MaxPollingTicks]

NoCalls == [lwr |-> 0, lwr_sleep |-> 0, lwr_sleep_ticks |-> 0, launch |-> 0,
            ready |-> 0, wfr |-> 0, rr |-> 0]

\* The history of a wait_for_response call that starts with the flag c.
NoWait(c) == [sleeps |-> 0, in_window |-> FALSE, ever |-> FALSE,
              cancel_pc |-> IF c THEN "before" ELSE None, cancel_sleeps |-> 0,
              returned_at |-> 0]

\* The state in which the client calls one of the entry points: "workflow" is
\* run_automated_workflow on a fresh bridge, "read" is read_response and
\* "wait" is wait_for_response on a monitor that is already bound (and that
\* another thread may already have cancelled).
Entered(configs, entries) ==
  /\ config \in configs
  /\ entry \in entries
  /\ IF entry = "workflow"
       THEN /\ pc = "raw_create"
            /\ monitor = None
            /\ file = Absent
            /\ rr_max = ReadDefaultRetries
            /\ calls = NoCalls
            /\ cancelled = FALSE
       ELSE IF entry = "read"
       THEN /\ pc = "rr_for"
            /\ monitor = "bound"
            /\ file \in FileContents
            /\ rr_max \in 0..MaxReadRetries
            /\ calls = [NoCalls EXCEPT !.rr = 1]
            /\ cancelled = FALSE
       ELSE /\ pc = "wfr_start"
            /\ monitor = "bound"
            /\ file \in FileContents
            /\ rr_max = ReadDefaultRetries
            /\ calls = [NoCalls EXCEPT !.wfr = 1]
            /\ cancelled \in BOOLEAN
  /\ now = 0
  /\ wake = 0
  /\ changes = 0
  /\ current_request_id = None
  /\ request_id = None
  /\ attempt = 0
  /\ lwr_ret = NotReturned
  /\ start_time = 0
  /\ wfr_ret = NotReturned
  /\ rr_ret = NotReturned
  /\ result = Running
  /\ attempts = <<>>
  /\ polls = <<>>
  /\ wfr_hist = NoWait(cancelled)
  /\ reads = [outcomes |-> <<>>, sleeps |-> 0, ticks |-> 0, value |-> None]
  /\ cls = Unused
  /\ retry = Unused
  /\ conf = Unused
  /\ fs = Unused
  /\ cpm = Unused
  /\ pex = Unused

\* The workflow and read_response under a configuration with automation
\* enabled.
Init == Entered(AutomationConfigs({TRUE}), {"workflow", "read"})

\* ------------------------------------------------------------ environment

\* The external actor (the desktop application or a human) writes, rewrites
\* or removes the response file; it can do so once the request exists.
WriteResponse ==
  /\ monitor = "bound"
  /\ pc # "done"
  /\ changes < MaxFileChanges
  /\ \E c \in FileContents \ {file} :
       /\ file' = c
       /\ wfr_hist' =
            IF pc \in WfrPcs \ {"wfr_start"} /\ c # Absent
              THEN [wfr_hist EXCEPT
                      !.ever = TRUE,
                      !.in_window = @ \/ (now - start_time < Seconds(config.response_timeout))]
              ELSE wfr_hist
  /\ changes' = changes + 1
  /\ UNCHANGED <<config, entry, pc, now, wake, monitor, cancelled, current_request_id,
                 request_id, attempt, lwr_ret, start_time, wfr_ret, rr_max, rr_ret,
                 result, calls, attempts, polls, reads>>
  /\ UNCHANGED componentVars

\* ResponseMonitor.cancel, called from another thread on bridge.monitor.
cancel ==
  /\ monitor = "bound"
  /\ pc # "done"
  /\ cancelled' = TRUE
  /\ wfr_hist' =
       IF ~cancelled
         THEN [wfr_hist EXCEPT
                 !.cancel_pc = IF pc \in WfrPcs THEN pc
                               ELSE IF calls.wfr = 0 THEN "before" ELSE "after",
                 !.cancel_sleeps = wfr_hist.sleeps]
         ELSE wfr_hist
  /\ UNCHANGED <<config, entry, pc, now, wake, file, changes, monitor, current_request_id,
                 request_id, attempt, lwr_ret, start_time, wfr_ret, rr_max, rr_ret,
                 result, calls, attempts, polls, reads>>
  /\ UNCHANGED componentVars

\* Time passes while the client thread is inside time.sleep.
Tick ==
  /\ pc \in SleepPcs
  /\ now < wake
  /\ now' = now + 1
  /\ reads' = IF pc = "rr_sleep" THEN [reads EXCEPT !.ticks = @ + 1] ELSE reads
  /\ calls' = IF pc = "lwr_sleep" THEN Called("lwr_sleep_ticks") ELSE calls
  /\ UNCHANGED <<config, entry, pc, wake, file, changes, monitor, cancelled,
                 current_request_id, request_id, attempt, lwr_ret, start_time, wfr_ret,
                 rr_max, rr_ret, result, attempts, polls, wfr_hist>>
  /\ UNCHANGED componentVars

\* ------------------------------------------- AutomatedBridge, steps 1 and 2

\* Step 1: create_automated_request.  create_help_request draws the id from
\* the clock and persists the request document (which may raise); then the
\* monitor is bound to the response path of that id.
create_automated_request ==
  /\ pc = "raw_create"
  /\ \/ \E id \in RequestIds :
          /\ request_id' = id
          /\ current_request_id' = id
          /\ monitor' = "bound"
          /\ cancelled' = FALSE
          /\ pc' = "raw_step2"
          /\ UNCHANGED result
     \/ /\ pc' = "done"
        /\ result' = Raised
        /\ UNCHANGED <<request_id, current_request_id, monitor, cancelled>>
  /\ UNCHANGED <<config, entry, now, wake, file, changes, attempt, lwr_ret, start_time,
                 wfr_ret, rr_max, rr_ret>>
  /\ UNCHANGED histVars
  /\ UNCHANGED componentVars
AutoLaunchIgnored == TRUE
AutoLaunch == config.auto_launch_desktop

\* Step 2: if self.config.auto_launch_desktop: launch_with_retry() else manual mode.
raw_step2 ==
  /\ pc = "raw_step2"
  /\ IF AutoLaunch
       THEN /\ pc' = "lwr_for"
            /\ attempt' = 1
            /\ calls' = Called("lwr")
            /\ UNCHANGED result
       ELSE /\ pc' = "done"
            /\ result' = ManualModeResult(request_id)
            /\ UNCHANGED <<attempt, calls>>
  /\ UNCHANGED <<config, entry, now, wake, file, changes, monitor, cancelled,
                 current_request_id, request_id, lwr_ret, start_time, wfr_ret, rr_max,
                 rr_ret, attempts, polls, wfr_hist, reads>>
  /\ UNCHANGED componentVars

\* --------------------------------------------------------- DesktopLauncher
AttemptInRangeOffByOne(a) == a <= config.max_retries + 1
AttemptInRange(a) == a <= config.max_retries

\* for attempt in range(1, self.config.max_retries + 1): ... return False
lwr_for ==
  /\ pc = "lwr_for"
  /\ IF AttemptInRange(attempt)
       THEN /\ pc' = "lwr_launch"
            /\ UNCHANGED lwr_ret
       ELSE /\ pc' = "raw_launched"
            /\ lwr_ret' = Returned(FALSE)
  /\ UNCHANGED <<config, entry, now, wake, file, changes, monitor, cancelled,
                 current_request_id, request_id, attempt, start_time, wfr_ret, rr_max,
                 rr_ret, result>>
  /\ UNCHANGED histVars
  /\ UNCHANGED componentVars

\* if self.launch(): the open command succeeds or fails.
lwr_launch ==
  /\ pc = "lwr_launch"
  /\ \E ok \in BOOLEAN :
       IF ok
         THEN /\ pc' = "wur_start"
              /\ calls' = Called("launch")
              /\ UNCHANGED attempts
         ELSE /\ pc' = "lwr_retry"
              /\ calls' = Called("launch")
              /\ attempts' = Append(attempts, [launch |-> FALSE, waited |-> FALSE, ready |-> FALSE])
  /\ UNCHANGED <<config, entry, now, wake, file, changes, monitor, cancelled,
                 current_request_id, request_id, attempt, lwr_ret, start_time, wfr_ret,
                 rr_max, rr_ret, result, polls, wfr_hist, reads>>
  /\ UNCHANGED componentVars

\* wait_until_ready: start_time = time.time()
wur_start ==
  /\ pc = "wur_start"
  /\ now' = 0
  /\ start_time' = now'
  /\ calls' = Called("ready")
  /\ pc' = "wur_loop"
  /\ UNCHANGED <<config, entry, wake, file, changes, monitor, cancelled,
                 current_request_id, request_id, attempt, lwr_ret, wfr_ret, rr_max,
                 rr_ret, result, attempts, polls, wfr_hist, reads>>
  /\ UNCHANGED componentVars

\* while time.time() - start_time < timeout: ... return False
wur_loop ==
  /\ pc = "wur_loop"
  /\ IF now - start_time < Seconds(config.launch_timeout)
       THEN /\ pc' = "wur_check"
            /\ UNCHANGED attempts
       ELSE /\ pc' = "lwr_retry"
            /\ attempts' = Append(attempts, [launch |-> TRUE, waited |-> TRUE, ready |-> FALSE])
  /\ UNCHANGED <<config, entry, now, wake, file, changes, monitor, cancelled,
                 current_request_id, request_id, attempt, lwr_ret, start_time, wfr_ret,
                 rr_max, rr_ret, result, calls, polls, wfr_hist, reads>>
  /\ UNCHANGED componentVars

\* if self.is_running(): return True, and launch_with_retry returns True;
\* else time.sleep(0.5)
wur_check ==
  /\ pc = "wur_check"
  /\ \E running \in BOOLEAN :
       IF running
         THEN /\ attempts' = Append(attempts, [launch |-> TRUE, waited |-> TRUE, ready |-> TRUE])
              /\ lwr_ret' = Returned(TRUE)
              /\ pc' = "raw_launched"
              /\ UNCHANGED wake
         ELSE /\ wake' = now + ReadyPollTicks
              /\ pc' = "wur_sleep"
              /\ UNCHANGED <<attempts, lwr_ret>>
  /\ UNCHANGED <<config, entry, now, file, changes, monitor, cancelled,
                 current_request_id, request_id, attempt, start_time, wfr_ret, rr_max,
                 rr_ret, result, calls, polls, wfr_hist, reads>>
  /\ UNCHANGED componentVars
wur_sleep ==
  /\ pc = "wur_sleep"
  /\ now = wake
  /\ pc' = "wur_loop"
  /\ UNCHANGED <<config, entry, now, wake, file, changes, monitor, cancelled,
                 current_request_id, request_id, attempt, lwr_ret, start_time, wfr_ret,
                 rr_max, rr_ret, result>>
  /\ UNCHANGED histVars
  /\ UNCHANGED componentVars

AttemptFollowsAlways == TRUE
\* if attempt < self.config.max_retries
AttemptFollows == attempt < config.max_retries

\* if attempt < self.config.max_retries: time.sleep(1); then the next attempt
lwr_retry ==
  /\ pc = "lwr_retry"
  /\ IF AttemptFollows
       THEN /\ wake' = now + Seconds(LaunchRetrySleepSeconds)
            /\ pc' = "lwr_sleep"
            /\ calls' = Called("lwr_sleep")
            /\ UNCHANGED attempt
       ELSE /\ attempt' = attempt + 1
            /\ pc' = "lwr_for"
            /\ UNCHANGED <<wake, calls>>
  /\ UNCHANGED <<config, entry, now, file, changes, monitor, cancelled,
                 current_request_id, request_id, lwr_ret, start_time, wfr_ret, rr_max,
                 rr_ret, result>>
  /\ UNCHANGED <<attempts, polls, wfr_hist, reads>>
  /\ UNCHANGED componentVars
lwr_sleep ==
  /\ pc = "lwr_sleep"
  /\ now = wake
  /\ attempt' = attempt + 1
  /\ pc' = "lwr_for"
  /\ UNCHANGED <<config, entry, now, wake, file, changes, monitor, cancelled,
                 current_request_id, request_id, lwr_ret, start_time, wfr_ret, rr_max,
                 rr_ret, result>>
  /\ UNCHANGED histVars
  /\ UNCHANGED componentVars
LaunchAssumed == TRUE
LaunchSucceeded == lwr_ret = Returned(TRUE)

\* if not self.launcher.launch_with_retry(): return manual_mode
raw_launched ==
  /\ pc = "raw_launched"
  /\ IF LaunchSucceeded
       THEN /\ pc' = "raw_step3"
            /\ UNCHANGED result
       ELSE /\ pc' = "done"
            /\ result' = ManualModeResult(request_id)
  /\ UNCHANGED <<config, entry, now, wake, file, changes, monitor, cancelled,
                 current_request_id, request_id, attempt, lwr_ret, start_time, wfr_ret,
                 rr_max, rr_ret>>
  /\ UNCHANGED histVars
  /\ UNCHANGED componentVars


\* --------------------------------------------- AutomatedBridge, steps 3 and 4

\* if self.monitor and self.monitor.wait_for_response(): the call
raw_step3 ==
  /\ pc = "raw_step3"
  /\ IF monitor # None
       THEN /\ pc' = "wfr_start"
            /\ calls' = Called("wfr")
            /\ UNCHANGED result
       ELSE /\ pc' = "done"
            /\ result' = TimeoutResult(request_id)
            /\ UNCHANGED calls
  /\ UNCHANGED <<config, entry, now, wake, file, changes, monitor, cancelled,
                 current_request_id, request_id, attempt, lwr_ret, start_time, wfr_ret,
                 rr_max, rr_ret, attempts, polls, wfr_hist, reads>>
  /\ UNCHANGED componentVars

\* --------------------------------------------------------- ResponseMonitor

\* wait_for_response returns v: to run_automated_workflow, or to the client
\* that called it directly.
wfr_return(v) ==
  /\ wfr_ret' = Returned(v)
  /\ pc' = IF entry = "workflow" THEN "raw_waited" ELSE "waited"

\* start_time = time.time(); timeout, interval = config values
wfr_start ==
  /\ pc = "wfr_start"
  /\ now' = 0
  /\ start_time' = now'
  /\ pc' = "wfr_loop"
  /\ wfr_hist' = [wfr_hist EXCEPT !.ever = (file # Absent), !.in_window = (file # Absent)]
  /\ UNCHANGED <<config, entry, wake, file, changes, monitor, cancelled,
                 current_request_id, request_id, attempt, lwr_ret, wfr_ret, rr_max,
                 rr_ret, result, calls, attempts, polls, reads>>
  /\ UNCHANGED componentVars
BeforeDeadlineInclusive == now - start_time <= Seconds(config.response_timeout)
BeforeDeadline == now - start_time < Seconds(config.response_timeout)

\* while time.time() - start_time < timeout: ... return False
wfr_loop ==
  /\ pc = "wfr_loop"
  /\ IF BeforeDeadline
       THEN /\ pc' = "wfr_cancel"
            /\ UNCHANGED <<wfr_ret, wfr_hist>>
       ELSE /\ wfr_return(FALSE)
            /\ wfr_hist' = [wfr_hist EXCEPT !.returned_at = now]
  /\ UNCHANGED <<config, entry, now, wake, file, changes, monitor, cancelled,
                 current_request_id, request_id, attempt, lwr_ret, start_time, rr_max,
                 rr_ret, result, calls, attempts, polls, reads>>
  /\ UNCHANGED componentVars
CancelRequestedNever == FALSE
CancelRequested == cancelled

\* if self.cancelled: return False
wfr_cancel ==
  /\ pc = "wfr_cancel"
  /\ IF CancelRequested
       THEN /\ wfr_return(FALSE)
            /\ wfr_hist' = [wfr_hist EXCEPT !.returned_at = now]
       ELSE /\ pc' = "wfr_exists"
            /\ UNCHANGED <<wfr_ret, wfr_hist>>
  /\ UNCHANGED <<config, entry, now, wake, file, changes, monitor, cancelled,
                 current_request_id, request_id, attempt, lwr_ret, start_time, rr_max,
                 rr_ret, result, calls, attempts, polls, reads>>
  /\ UNCHANGED componentVars
check_for_response_always == TRUE
\* check_for_response: self.response_file_path.exists()
check_for_response == file # Absent

\* if self.check_for_response(): return True; else time.sleep(interval)
wfr_exists ==
  /\ pc = "wfr_exists"
  /\ polls' = Append(polls, [t |-> now, exists |-> (file # Absent)])
  /\ IF check_for_response
       THEN /\ wfr_return(TRUE)
            /\ wfr_hist' = [wfr_hist EXCEPT !.returned_at = now]
            /\ UNCHANGED wake
       ELSE /\ wake' = now + config.polling_interval
            /\ pc' = "wfr_sleep"
            /\ UNCHANGED <<wfr_ret, wfr_hist>>
  /\ UNCHANGED <<config, entry, now, file, changes, monitor, cancelled,
                 current_request_id, request_id, attempt, lwr_ret, start_time, rr_max,
                 rr_ret, result, calls, attempts, reads>>
  /\ UNCHANGED componentVars
wfr_sleep ==
  /\ pc = "wfr_sleep"
  /\ now = wake
  /\ pc' = "wfr_loop"
  /\ wfr_hist' = [wfr_hist EXCEPT !.sleeps = @ + 1]
  /\ UNCHANGED <<config, entry, now, wake, file, changes, monitor, cancelled,
                 current_request_id, request_id, attempt, lwr_ret, start_time, wfr_ret,
                 rr_max, rr_ret, result, calls, attempts, polls, reads>>
  /\ UNCHANGED componentVars
WaitAssumed == TRUE
WaitSucceeded == wfr_ret = Returned(TRUE)

\* if ... wait_for_response(): response = self.monitor.read_response()
\* else: the timeout result
raw_waited ==
  /\ pc = "raw_waited"
  /\ IF WaitSucceeded
       THEN /\ pc' = "rr_for"
            /\ attempt' = 0
            /\ calls' = Called("rr")
            /\ UNCHANGED result
       ELSE /\ pc' = "done"
            /\ result' = TimeoutResult(request_id)
            /\ UNCHANGED <<attempt, calls>>
  /\ UNCHANGED <<config, entry, now, wake, file, changes, monitor, cancelled,
                 current_request_id, request_id, lwr_ret, start_time, wfr_ret, rr_max,
                 rr_ret, attempts, polls, wfr_hist, reads>>
  /\ UNCHANGED componentVars

\* read_response returns v: to run_automated_workflow, or to the client
\* that called it directly.
rr_return(v) ==
  /\ rr_ret' = Returned(v)
  /\ pc' = IF entry = "workflow" THEN "raw_read" ELSE "done"

Outcome(o) == [reads EXCEPT !.outcomes = Append(@, o)]

\* for attempt in range(max_retries): ... return None
rr_for ==
  /\ pc = "rr_for"
  /\ IF attempt < rr_max
       THEN /\ pc' = "rr_exists"
            /\ UNCHANGED rr_ret
       ELSE rr_return(None)
  /\ UNCHANGED <<config, entry, now, wake, file, changes, monitor, cancelled,
                 current_request_id, request_id, attempt, lwr_ret, start_time, wfr_ret,
                 rr_max, result>>
  /\ UNCHANGED histVars
  /\ UNCHANGED componentVars

\* if not self.response_file_path.exists(): return None
rr_exists ==
  /\ pc = "rr_exists"
  /\ IF file = Absent
       THEN /\ rr_return(None)
            /\ reads' = Outcome("absent")
       ELSE /\ pc' = "rr_read"
            /\ UNCHANGED <<rr_ret, reads>>
  /\ UNCHANGED <<config, entry, now, wake, file, changes, monitor, cancelled,
                 current_request_id, request_id, attempt, lwr_ret, start_time, wfr_ret,
                 rr_max, result, calls, attempts, polls, wfr_hist>>
  /\ UNCHANGED componentVars

\* What json.loads(path.read_text(encoding="utf-8")) does: the exception
\* class it raises, or "ok".  io: the operating system fails the read.
ReadOutcome(io) ==
  IF io \/ file = Absent THEN "OSError"
  ELSE IF file = Undecodable THEN "UnicodeDecodeError"
  ELSE IF json_loads(file) = JSONDecodeError THEN "JSONDecodeError"
  ELSE "ok"

IsLastAttemptNever(a) == FALSE
IsLastAttempt(a) == ~(a < rr_max - 1)

\* The try block of one attempt and its except clauses.
rr_read ==
  /\ pc = "rr_read"
  /\ \E io \in BOOLEAN :
       LET o == ReadOutcome(io) IN
       /\ reads' = IF o = "ok" THEN [Outcome(o) EXCEPT !.value = json_loads(file)]
                             ELSE Outcome(o)
       /\ CASE o = "ok" ->
                 /\ rr_return(json_loads(file))
                 /\ UNCHANGED <<attempt, wake>>
            [] o = "UnicodeDecodeError" ->
                 /\ rr_return(None)
                 /\ UNCHANGED <<attempt, wake>>
            [] OTHER ->
                 IF IsLastAttempt(attempt)
                   THEN /\ attempt' = attempt + 1
                        /\ pc' = "rr_for"
                        /\ UNCHANGED <<rr_ret, wake>>
                   ELSE /\ wake' = now + Seconds(ReadRetrySleepSeconds)
                        /\ pc' = "rr_sleep"
                        /\ UNCHANGED <<rr_ret, attempt>>
  /\ UNCHANGED <<config, entry, now, file, changes, monitor, cancelled,
                 current_request_id, request_id, lwr_ret, start_time, wfr_ret, rr_max,
                 result, calls, attempts, polls, wfr_hist>>
  /\ UNCHANGED componentVars
rr_sleep ==
  /\ pc = "rr_sleep"
  /\ now = wake
  /\ attempt' = attempt + 1
  /\ pc' = "rr_for"
  /\ reads' = [reads EXCEPT !.sleeps = @ + 1]
  /\ UNCHANGED <<config, entry, now, wake, file, changes, monitor, cancelled,
                 current_request_id, request_id, lwr_ret, start_time, wfr_ret, rr_max,
                 rr_ret, result, calls, attempts, polls, wfr_hist>>
  /\ UNCHANGED componentVars

\* if response: return the success result; otherwise the timeout result
raw_read ==
  /\ pc = "raw_read"
  /\ result' = IF Truthy(rr_ret[1])
                 THEN SuccessResult(request_id, rr_ret[1])
                 ELSE TimeoutResult(request_id)
  /\ pc' = "done"
  /\ UNCHANGED <<config, entry, now, wake, file, changes, monitor, cancelled,
                 current_request_id, request_id, attempt, lwr_ret, start_time, wfr_ret,
                 rr_max, rr_ret>>
  /\ UNCHANGED histVars
  /\ UNCHANGED componentVars

\* ------------------------------------------------------------ specification
Next ==
  \/ WriteResponse
  \/ cancel
  \/ Tick
  \/ create_automated_request
  \/ raw_step2
  \/ lwr_for
  \/ lwr_launch
  \/ wur_start
  \/ wur_loop
  \/ wur_check
  \/ wur_sleep
  \/ lwr_retry
  \/ lwr_sleep
  \/ raw_launched
  \/ raw_step3
  \/ wfr_start
  \/ wfr_loop
  \/ wfr_cancel
  \/ wfr_exists
  \/ wfr_sleep
  \/ raw_waited
  \/ rr_for
  \/ rr_exists
  \/ rr_read
  \/ rr_sleep
  \/ raw_read

Spec == Init /\ [][Next]_vars


\* ------------------------------------------------------------------ claims

WorkflowReturned == entry = "workflow" /\ pc = "done" /\ result.kind = "returned"
Documents == {EmptyDict, AnalysisDict}

\* C1: every call of run_automated_workflow that returns yields a result
\* whose status is one of manual_mode, timeout, success, whose request_id is
\* the id the create step of the call produced, and which carries a response
\* document if and only if the status is success.
C1_ResultIsTaggedUnion ==
  WorkflowReturned =>
    /\ result.status \in {"manual_mode", "timeout", "success"}
    /\ current_request_id \in RequestIds
    /\ result.request_id = current_request_id
    /\ (result.status = "success") <=> (result.response # NoResponse)
    /\ (result.status = "success") => (result.response \in Documents)

C1_Witness ==
  WorkflowReturned /\ result.status = "success" /\ result.response = AnalysisDict

\* C2: with auto_launch_desktop false the workflow returns manual_mode and
\* never invokes launch_with_retry, launch, wait_for_response or read_response.
C2_NoLaunchWhenAutoLaunchOff ==
  (entry = "workflow" /\ ~config.auto_launch_desktop) =>
    /\ calls.lwr = 0 /\ calls.launch = 0 /\ calls.ready = 0
    /\ calls.wfr = 0 /\ calls.rr = 0
    /\ WorkflowReturned => result.status = "manual_mode"

C2_Witness ==
  WorkflowReturned /\ ~config.auto_launch_desktop /\ result.status = "manual_mode"

\* C3: with auto_launch_desktop true and launch_with_retry returning false
\* the workflow returns manual_mode and never invokes wait_for_response or
\* read_response.
C3_LaunchFailureIsManualMode ==
  (entry = "workflow" /\ config.auto_launch_desktop /\ lwr_ret = Returned(FALSE)) =>
    /\ calls.wfr = 0 /\ calls.rr = 0
    /\ WorkflowReturned => result.status = "manual_mode"

C3_Witness ==
  /\ WorkflowReturned /\ config.auto_launch_desktop /\ lwr_ret = Returned(FALSE)
  /\ result.status = "manual_mode"

\* C4 (as claimed): after a successful launch and a successful wait, when
\* read_response returned any value other than None the workflow returns
\* success with exactly that value; and after a successful wait, timeout is
\* returned only when read_response returned None.
C4_AnyDocumentIsSuccess ==
  (WorkflowReturned /\ lwr_ret = Returned(TRUE) /\ wfr_ret = Returned(TRUE)) =>
    /\ (rr_ret # NotReturned /\ rr_ret # Returned(None)) =>
         (result.status = "success" /\ result.response = rr_ret[1])
    /\ result.status = "timeout" => rr_ret = Returned(None)

\* C5: if wait_for_response returns false (deadline or cancel) the workflow
\* returns timeout and read_response is never invoked.
C5_FailedWaitIsTimeout ==
  (entry = "workflow" /\ wfr_ret = Returned(FALSE)) =>
    /\ calls.rr = 0
    /\ WorkflowReturned => result.status = "timeout"

C5_Witness ==
  /\ WorkflowReturned /\ wfr_ret = Returned(FALSE) /\ result.status = "timeout"
  /\ wfr_hist.cancel_pc \in WfrPcs

AttemptSucceeded(a) == a.launch /\ a.ready

\* C6: launch_with_retry invokes launch() at most max_retries times; it
\* returns true at the first attempt whose launch() and wait_until_ready()
\* both return true and makes no further attempt; it returns false only
\* after max_retries attempts have each failed; wait_until_ready() is
\* invoked only in an attempt whose launch() returned true.
C6_LaunchWithRetry ==
  LET n == Len(attempts) IN
  /\ calls.launch <= config.max_retries
  /\ n <= calls.launch /\ calls.launch <= n + 1
  /\ calls.ready <= calls.launch
  /\ \A i \in 1..n : attempts[i].waited <=> attempts[i].launch
  /\ calls.ready >= Cardinality({i \in 1..n : attempts[i].launch})
  /\ calls.ready <= Cardinality({i \in 1..n : attempts[i].launch}) + 1
  /\ \A i \in 1..n : AttemptSucceeded(attempts[i]) =>
       (i = n /\ lwr_ret = Returned(TRUE) /\ calls.launch = n)
  /\ lwr_ret = Returned(TRUE) => (n >= 1 /\ AttemptSucceeded(attempts[n]))
  /\ lwr_ret = Returned(FALSE) =>
       /\ n = config.max_retries
       /\ calls.launch = config.max_retries
       /\ \A i \in 1..n : ~AttemptSucceeded(attempts[i])

C6_Witness ==
  /\ lwr_ret = Returned(TRUE)
  /\ Len(attempts) = 2
  /\ attempts[1].launch /\ ~attempts[1].ready
  /\ calls.ready = 2


WaitReturned == wfr_ret # NotReturned
\* cancel() was not invoked before wait_for_response returned.
NotCancelledDuringWait == wfr_hist.cancel_pc \in {None, "after"}
ResponseTimeoutTicks == Seconds(config.response_timeout)

\* C7 (as claimed): for a monitor that is never cancelled, wait_for_response
\* returns true if and only if the response file exists at some moment
\* within response_timeout seconds of the call's start.
C7_TrueIffFileExistsWithinTimeout ==
  (WaitReturned /\ NotCancelledDuringWait) =>
    ((wfr_ret = Returned(TRUE)) <=> wfr_hist.in_window)

\* C7 (amended): for a monitor that is never cancelled, wait_for_response
\* makes its existence checks at the start of the call and every
\* polling_interval after it, as long as less than response_timeout has
\* elapsed; it returns true if and only if the file exists at the instant of
\* one of these checks, and false once no check instant is left.
C7_TrueIffFileExistsAtAPoll ==
  /\ \A i \in 1..Len(polls) :
       /\ polls[i].t = start_time + (i - 1) * config.polling_interval
       /\ polls[i].t - start_time < ResponseTimeoutTicks
       /\ polls[i].exists => (i = Len(polls) /\ wfr_ret = Returned(TRUE))
  /\ (WaitReturned /\ NotCancelledDuringWait) =>
       /\ (wfr_ret = Returned(TRUE)) <=> (\E i \in 1..Len(polls) : polls[i].exists)
       /\ wfr_ret = Returned(FALSE) =>
            Len(polls) * config.polling_interval >= ResponseTimeoutTicks

C7_Witness ==
  /\ WaitReturned /\ NotCancelledDuringWait
  /\ wfr_ret = Returned(FALSE)
  /\ wfr_hist.in_window
  /\ Len(polls) >= 2

SleepsAfterCancel == wfr_hist.sleeps - wfr_hist.cancel_sleeps

\* C8 (as claimed): if cancel() is invoked while wait_for_response is
\* running, the call returns false after at most one further
\* polling_interval sleep, and never returns true once cancel() was invoked.
C8_NeverTrueAfterCancel ==
  (WaitReturned /\ wfr_hist.cancel_pc \in WfrPcs) =>
    (wfr_ret = Returned(FALSE) /\ SleepsAfterCancel <= 1)

\* C8 (amended): if cancel() is invoked while wait_for_response is running,
\* the call returns after at most one further polling_interval sleep; it
\* returns false, except when the cancel arrives between the cancellation
\* check and the existence check of one poll cycle and the file exists at
\* that check: then it returns true, without any further sleep.
C8_CancelTakesEffectWithinOnePoll ==
  wfr_hist.cancel_pc \in WfrPcs =>
    /\ SleepsAfterCancel <= 1
    /\ (SleepsAfterCancel = 1 /\ pc \in WfrPcs) => pc \in {"wfr_loop", "wfr_cancel"}
    /\ WaitReturned =>
         ((wfr_ret = Returned(TRUE)) <=>
            /\ wfr_hist.cancel_pc = "wfr_exists"
            /\ SleepsAfterCancel = 0
            /\ polls[Len(polls)].exists)

C8_Witness ==
  /\ wfr_ret = Returned(TRUE)
  /\ wfr_hist.cancel_pc = "wfr_exists"
  /\ cancelled
  /\ wfr_hist.sleeps >= 1

\* C9: when the response file never appears and cancel is never invoked,
\* wait_for_response returns false, no earlier than response_timeout and
\* less than response_timeout + polling_interval after the call started.
C9_TimeoutWithinOneInterval ==
  (WaitReturned /\ NotCancelledDuringWait /\ ~wfr_hist.ever) =>
    /\ wfr_ret = Returned(FALSE)
    /\ wfr_hist.returned_at - start_time >= ResponseTimeoutTicks
    /\ wfr_hist.returned_at - start_time < ResponseTimeoutTicks + config.polling_interval

C9_Witness ==
  /\ WaitReturned /\ NotCancelledDuringWait /\ ~wfr_hist.ever
  /\ wfr_ret = Returned(FALSE)
  /\ wfr_hist.returned_at - start_time > ResponseTimeoutTicks

Retryable == {"JSONDecodeError", "OSError"}

WorkflowUnused ==
  /\ config = Unused /\ entry = Unused /\ pc = Unused /\ now = Unused
  /\ wake = Unused /\ file = Unused /\ changes = Unused /\ monitor = Unused
  /\ cancelled = Unused /\ current_request_id = Unused /\ request_id = Unused
  /\ attempt = Unused /\ lwr_ret = Unused /\ start_time = Unused
  /\ wfr_ret = Unused /\ rr_max = Unused /\ rr_ret = Unused /\ result = Unused
  /\ calls = Unused /\ attempts = Unused /\ polls = Unused
  /\ wfr_hist = Unused /\ reads = Unused

\* Python's built-in exception classes, each with its base class (IOError is
\* another name of OSError; json.JSONDecodeError derives from ValueError).
Base ==
  [c \in {"BaseException"} |-> "object"] @@
  [c \in {"Exception", "KeyboardInterrupt"} |-> "BaseException"] @@
  [c \in {"SystemError", "MemoryError", "OSError", "ValueError", "TypeError",
          "RuntimeError", "KeyError"} |-> "Exception"] @@
  [c \in {"ConnectionError", "TimeoutError", "FileNotFoundError", "PermissionError",
          "IsADirectoryError"} |-> "OSError"] @@
  [c \in {"ConnectionRefusedError"} |-> "ConnectionError"] @@
  [c \in {JSONDecodeError, "UnicodeDecodeError"} |-> "ValueError"]

\* the classes of the errors given to classify_error
ErrorClasses == DOMAIN Base \ {"BaseException"}

RECURSIVE Mro(_)
Mro(c) == IF c = "object" THEN {} ELSE {c} \cup Mro(Base[c])

\* isinstance(error, classes), error being given by its class
isinstance(error, classes) == Mro(error) \cap classes # {}

\* a string is the sequence of its characters
kw_system_crash == <<"s", "y", "s", "t", "e", "m", "_", "c", "r", "a", "s", "h">>
kw_critical == <<"c", "r", "i", "t", "i", "c", "a", "l">>
kw_network == <<"n", "e", "t", "w", "o", "r", "k">>
kw_timeout == <<"t", "i", "m", "e", "o", "u", "t">>
kw_file_operation == <<"f", "i", "l", "e", "_", "o", "p", "e", "r", "a", "t", "i", "o", "n">>
kw_io == <<"i", "o">>
kw_json == <<"j", "s", "o", "n">>
kw_parse == <<"p", "a", "r", "s", "e">>
kw_validation == <<"v", "a", "l", "i", "d", "a", "t", "i", "o", "n">>
ctx_empty == <<>>
ctx_test_context == <<"t", "e", "s", "t", "_", "c", "o", "n", "t", "e", "x", "t">>
ctx_critical_operation == <<"c", "r", "i", "t", "i", "c", "a", "l", "_", "o", "p", "e", "r", "a", "t", "i", "o", "n">>
ctx_radio == <<"r", "a", "d", "i", "o">>
ctx_network_validation == <<"n", "e", "t", "w", "o", "r", "k", "_", "v", "a", "l", "i", "d", "a", "t", "i", "o", "n">>
ctx_json_validation == <<"j", "s", "o", "n", "_", "v", "a", "l", "i", "d", "a", "t", "i", "o", "n">>
ctx_file_operation_parse == <<"f", "i", "l", "e", "_", "o", "p", "e", "r", "a", "t", "i", "o", "n", "_", "p", "a", "r", "s", "e">>
ctx_io_timeout == <<"i", "o", "_", "t", "i", "m", "e", "o", "u", "t">>

\* sub in s, of Python strings
in(sub, s) ==
  \E i \in 0..(Len(s) - Len(sub)) : SubSeq(s, i + 1, i + Len(sub)) = sub

Contexts ==
  {kw_system_crash, kw_critical, kw_network, kw_timeout, kw_file_operation, kw_io,
   kw_json, kw_parse, kw_validation, ctx_empty, ctx_test_context,
   ctx_critical_operation, ctx_radio, ctx_network_validation, ctx_json_validation,
   ctx_file_operation_parse, ctx_io_timeout}

\* the checks of classify_error with every isinstance check before every
\* context check
classify_error_types_first(error, context) ==
  IF isinstance(error, {"SystemError", "MemoryError", "KeyboardInterrupt"})
    THEN "critical"
  ELSE IF isinstance(error, {"ConnectionError", "TimeoutError"}) THEN "recoverable"
  ELSE IF isinstance(error, {"FileNotFoundError", "PermissionError", "OSError"})
    THEN "recoverable"
  ELSE IF error = JSONDecodeError THEN "warning"
  ELSE IF isinstance(error, {"ValueError", "TypeError"}) THEN "warning"
  ELSE IF in(kw_system_crash, context) \/ in(kw_critical, context) THEN "critical"
  ELSE IF in(kw_network, context) \/ in(kw_timeout, context) THEN "recoverable"
  ELSE IF in(kw_file_operation, context) \/ context = kw_io THEN "recoverable"
  ELSE IF in(kw_json, context) \/ in(kw_parse, context) THEN "warning"
  ELSE IF in(kw_validation, context) THEN "warning"
  ELSE "recoverable"

\* the checks of classify_error with the check of "validation" in the context
\* moved before the checks of the I/O error classes
classify_error_validation_first(error, context) ==
  IF in(kw_system_crash, context) \/ in(kw_critical, context) THEN "critical"
  ELSE IF isinstance(error, {"SystemError", "MemoryError", "KeyboardInterrupt"})
    THEN "critical"
  ELSE IF isinstance(error, {"ConnectionError", "TimeoutError"}) THEN "recoverable"
  ELSE IF in(kw_network, context) \/ in(kw_timeout, context) THEN "recoverable"
  ELSE IF in(kw_validation, context) THEN "warning"
  ELSE IF isinstance(error, {"FileNotFoundError", "PermissionError", "OSError"})
    THEN "recoverable"
  ELSE IF in(kw_file_operation, context) \/ context = kw_io THEN "recoverable"
  ELSE IF error = JSONDecodeError THEN "warning"
  ELSE IF in(kw_json, context) \/ in(kw_parse, context) THEN "warning"
  ELSE IF isinstance(error, {"ValueError", "TypeError"}) THEN "warning"
  ELSE "recoverable"

\* ErrorHandler.classify_error(error, context)
classify_error(error, context) ==
  IF in(kw_system_crash, context) \/ in(kw_critical, context) THEN "critical"
  ELSE IF isinstance(error, {"SystemError", "MemoryError", "KeyboardInterrupt"})
    THEN "critical"
  ELSE IF isinstance(error, {"ConnectionError", "TimeoutError"}) THEN "recoverable"
  ELSE IF in(kw_network, context) \/ in(kw_timeout, context) THEN "recoverable"
  ELSE IF isinstance(error, {"FileNotFoundError", "PermissionError", "OSError"})
    THEN "recoverable"
  ELSE IF in(kw_file_operation, context) \/ context = kw_io THEN "recoverable"
  \* error.__class__.__name__ in ['JSONDecodeError', 'json.JSONDecodeError']
  ELSE IF error = JSONDecodeError THEN "warning"
  ELSE IF in(kw_json, context) \/ in(kw_parse, context) THEN "warning"
  ELSE IF in(kw_validation, context) THEN "warning"
  ELSE IF isinstance(error, {"ValueError", "TypeError"}) THEN "warning"
  ELSE "recoverable"

notCls == <<workflowVars, retry, conf, fs, cpm, pex>>

InitClassify ==
  /\ WorkflowUnused
  /\ cls \in [error : ErrorClasses, context : Contexts, ret : {NotReturned}]
  /\ retry = Unused /\ conf = Unused /\ fs = Unused /\ cpm = Unused /\ pex = Unused

\* a call of classify_error
classify ==
  /\ cls.ret = NotReturned
  /\ cls' = [cls EXCEPT !.ret = Returned(classify_error(cls.error, cls.context))]
  /\ UNCHANGED notCls

NextClassify == classify

SpecClassify == InitClassify /\ [][NextClassify]_vars

\* ------------------------------------------------------------------ claims

\* the rules of the classification, each with its tier
Rule1(error, context) ==
  \/ in(kw_system_crash, context) \/ in(kw_critical, context)
  \/ isinstance(error, {"MemoryError", "SystemError", "KeyboardInterrupt"})
Rule2(error, context) ==
  \/ isinstance(error, {"ConnectionError", "TimeoutError"})
  \/ in(kw_network, context) \/ in(kw_timeout, context)
Rule3(error, context) ==
  \/ isinstance(error, {"FileNotFoundError", "PermissionError", "OSError"})
  \/ in(kw_file_operation, context) \/ context = kw_io
Rule4(error, context) ==
  \/ error = JSONDecodeError
  \/ in(kw_json, context) \/ in(kw_parse, context)
Rule5(error, context) ==
  \/ in(kw_validation, context)
  \/ isinstance(error, {"ValueError", "TypeError"})

FirstMatchingRule(error, context) ==
  CASE Rule1(error, context) -> "critical"
    [] ~Rule1(error, context) /\ Rule2(error, context) -> "recoverable"
    [] ~Rule1(error, context) /\ ~Rule2(error, context) /\ Rule3(error, context)
         -> "recoverable"
    [] ~Rule1(error, context) /\ ~Rule2(error, context) /\ ~Rule3(error, context)
         /\ Rule4(error, context) -> "warning"
    [] ~Rule1(error, context) /\ ~Rule2(error, context) /\ ~Rule3(error, context)
         /\ ~Rule4(error, context) /\ Rule5(error, context) -> "warning"
    [] OTHER -> "recoverable"

\* C14: for every error kind and context string, classify_error returns the
\* tier of the first rule that matches, the rules taken in the order
\* critical (1), network (2), file I/O (3), JSON (4), validation (5), and
\* recoverable when none matches.
C14_FirstMatchingRule ==
  cls.ret # NotReturned =>
    cls.ret = Returned(FirstMatchingRule(cls.error, cls.context))

\* a context of rule 2 met with an error kind of rule 1: the earlier rule wins
C14_Witness ==
  /\ cls.error = "MemoryError"
  /\ cls.context = ctx_network_validation
  /\ cls.ret = Returned("critical")

\* C15, as stated: a file-not-found error with context "validation" is
\* classified warning.
C15_FileNotFoundValidationIsWarning ==
  (cls.ret # NotReturned /\ cls.error = "FileNotFoundError"
     /\ cls.context = kw_validation)
    => cls.ret = Returned("warning")

\* C15, amended: a file-not-found error with context "validation" is
\* classified recoverable, the I/O rule coming before the check of the
\* context for "validation"; that context makes the tier warning only for an
\* error that none of the rules 1 to 4 matches.
C15_FileNotFoundValidationIsRecoverable ==
  (cls.ret # NotReturned /\ cls.context = kw_validation) =>
    /\ cls.error = "FileNotFoundError" => cls.ret = Returned("recoverable")
    /\ (\A c \in Mro(cls.error) :
          c \notin {"SystemError", "MemoryError", "KeyboardInterrupt", "OSError"})
         => cls.ret = Returned("warning")

C15_Witness ==
  /\ cls.error = "FileNotFoundError"
  /\ cls.context = kw_validation
  /\ cls.ret = Returned("recoverable")

\* ============================================== ErrorHandler.retry_on_error

\* what func() does when it is called: it returns its value or raises
FuncValue == "value"
FuncErrors == {"RuntimeError", "ValueError", "FileNotFoundError", "MemoryError",
               "KeyboardInterrupt"}
RetryContexts == {ctx_empty, kw_validation, kw_critical}

Raises(e) == <<"raise", e>>    \* a call that raised e to its caller

RECURSIVE Power(_, _)
Power(b, k) == IF k = 0 THEN 1 ELSE b * Power(b, k - 1)

notRetry == <<workflowVars, cls, conf, fs, cpm, pex>>

InitRetry ==
  /\ WorkflowUnused
  /\ \E max_retries \in 0..MaxRetryOnError, delay \in 1..MaxDelay,
        backoff \in 1..MaxBackoff, context \in RetryContexts :
       retry = [max_retries |-> max_retries, delay |-> delay, backoff |-> backoff,
                context |-> context,
                pc |-> "for",
                attempt |-> 0,             \* the loop variable
                last_error |-> None,
                current_delay |-> delay,
                e |-> None,                \* the exception caught
                outcomes |-> <<>>,         \* history: what each call of func did
                sleeps |-> <<>>,           \* history: the time.sleep calls made
                ret |-> NotReturned]
  /\ cls = Unused /\ conf = Unused /\ fs = Unused /\ cpm = Unused /\ pex = Unused

\* for attempt in range(max_retries):
roe_for ==
  /\ retry.pc = "for"
  /\ retry' = [retry EXCEPT !.pc = IF retry.attempt < retry.max_retries
                                     THEN "call" ELSE "exhausted"]
  /\ UNCHANGED notRetry

\* except Exception as e: KeyboardInterrupt is no Exception
Caught(e) == isinstance(e, {"Exception"})

\* return func(), or the exception func raised
roe_call ==
  /\ retry.pc = "call"
  /\ \/ retry' = [retry EXCEPT !.outcomes = Append(@, FuncValue),
                               !.ret = Returned(FuncValue),
                               !.pc = "done"]
     \/ \E e \in FuncErrors :
          retry' = [retry EXCEPT !.outcomes = Append(@, e),
                                 !.e = IF Caught(e) THEN e ELSE @,
                                 !.ret = IF Caught(e) THEN @ ELSE Raises(e),
                                 !.pc = IF Caught(e) THEN "except" ELSE "done"]
  /\ UNCHANGED notRetry

IsCriticalNever(severity) == FALSE
\* if severity == "critical":
IsCritical(severity) == severity = "critical"

SleepsAgainAlways(a, max_retries) == TRUE
\* if attempt < max_retries - 1:
SleepsAgain(a, max_retries) == a < max_retries - 1

\* the except block up to the sleep
roe_except ==
  /\ retry.pc = "except"
  /\ LET severity == classify_error(retry.e, retry.context) IN
       retry' = [retry EXCEPT
         !.last_error = retry.e,
         !.ret = IF IsCritical(severity) THEN Raises(retry.e) ELSE @,
         !.pc = IF IsCritical(severity) THEN "done"
                ELSE IF SleepsAgain(retry.attempt, retry.max_retries) THEN "sleep"
                ELSE "for",
         !.attempt = IF ~IsCritical(severity)
                        /\ ~SleepsAgain(retry.attempt, retry.max_retries)
                       THEN @ + 1 ELSE @]
  /\ UNCHANGED notRetry

\* time.sleep(current_delay); current_delay *= backoff
roe_sleep ==
  /\ retry.pc = "sleep"
  /\ retry' = [retry EXCEPT !.sleeps = Append(@, retry.current_delay),
                            !.current_delay = @ * retry.backoff,
                            !.attempt = @ + 1,
                            !.pc = "for"]
  /\ UNCHANGED notRetry

\* after the loop: log_error(last_error, ...), which raises nothing, then
\* raise last_error; raise None is a TypeError
roe_exhausted ==
  /\ retry.pc = "exhausted"
  /\ retry' = [retry EXCEPT !.ret = IF retry.last_error = None
                                      THEN Raises("TypeError")
                                      ELSE Raises(retry.last_error),
                            !.pc = "done"]
  /\ UNCHANGED notRetry

NextRetry ==
  \/ roe_for
  \/ roe_call
  \/ roe_except
  \/ roe_sleep
  \/ roe_exhausted

SpecRetry == InitRetry /\ [][NextRetry]_vars

\* ------------------------------------------------------------------ claims

\* a failure of func that retry_on_error classifies critical
CriticalFailure(o) ==
  o # FuncValue /\ Caught(o) /\ classify_error(o, retry.context) = "critical"

\* C19: in retry_on_error a failure classified critical is re-raised at
\* once: func is not invoked again and no sleep follows the failure.
C19_CriticalIsRaisedAtOnce ==
  LET n == Len(retry.outcomes) IN
  /\ \A i \in 1..(n - 1) : ~CriticalFailure(retry.outcomes[i])
  /\ (n > 0 /\ CriticalFailure(retry.outcomes[n])) =>
       /\ retry.pc \in {"except", "done"}
       /\ Len(retry.sleeps) = n - 1
       /\ retry.pc = "done" => retry.ret = Raises(retry.outcomes[n])

\* a critical failure at the second call, after one retried failure
C19_Witness ==
  /\ retry.pc = "done"
  /\ retry.max_retries = 3
  /\ retry.outcomes = <<"RuntimeError", "MemoryError">>
  /\ retry.ret = Raises("MemoryError")
  /\ Len(retry.sleeps) = 1

\* a failure of func that retry_on_error catches and does not classify critical
NonCriticalFailure(o) ==
  o # FuncValue /\ Caught(o) /\ classify_error(o, retry.context) # "critical"

\* C20: for max_retries >= 1 and calls of func that return or fail
\* non-critically, func is invoked at most max_retries times and its first
\* success is returned at once; when all max_retries calls fail there have
\* been exactly max_retries - 1 sleeps, none after the last call, the k-th
\* lasting delay * backoff^(k-1), and the error raised is the last call's.
C20_RetriesWithBackoff ==
  LET n == Len(retry.outcomes) IN
  (/\ retry.max_retries >= 1
   /\ \A i \in 1..n : retry.outcomes[i] = FuncValue
                        \/ NonCriticalFailure(retry.outcomes[i])) =>
    /\ n <= retry.max_retries
    /\ \A i \in 1..(n - 1) : retry.outcomes[i] # FuncValue
    /\ Len(retry.sleeps) <= n
    /\ Len(retry.sleeps) < retry.max_retries
    /\ \A k \in 1..Len(retry.sleeps) :
         retry.sleeps[k] = retry.delay * Power(retry.backoff, k - 1)
    /\ (n > 0 /\ retry.outcomes[n] = FuncValue) =>
         /\ retry.pc = "done"
         /\ retry.ret = Returned(FuncValue)
         /\ Len(retry.sleeps) = n - 1
    /\ retry.pc = "done" =>
         /\ n > 0
         /\ retry.outcomes[n] # FuncValue =>
              /\ n = retry.max_retries
              /\ Len(retry.sleeps) = retry.max_retries - 1
              /\ retry.ret = Raises(retry.outcomes[n])

\* all three calls failed: two sleeps, the last error raised
C20_Witness ==
  /\ retry.pc = "done"
  /\ retry.max_retries = 3
  /\ retry.backoff = 2
  /\ retry.outcomes = <<"RuntimeError", "FileNotFoundError", "ValueError">>
  /\ retry.sleeps = <<retry.delay, 2 * retry.delay>>
  /\ retry.ret = Raises("ValueError")

\* ========================================================= AutomationConfig

\* Python values: the type, and the number or the text (a float is counted
\* in halves); True is 1 and False is 0.
PyBool(b) == [type |-> "bool", n |-> IF b THEN 1 ELSE 0, s |-> ""]
PyInt(i) == [type |-> "int", n |-> i, s |-> ""]
PyFloat(halves) == [type |-> "float", n |-> halves, s |-> ""]
PyStr(text) == [type |-> "str", n |-> 0, s |-> text]
PyNone == [type |-> "NoneType", n |-> 0, s |-> ""]
MissingKey == [type |-> "<no key>", n |-> 0, s |-> ""]   \* key not in the dict

\* the values a caller assigns to a field, or an editor writes into the file
PyValues == {PyBool(TRUE), PyBool(FALSE), PyInt(0), PyInt(15), PyFloat(5),
             PyStr(""), PyStr("TestApp"), PyNone}

\* JSON values as they stand in a file: the literal's kind and its content
JLiteral(kind, n, text) == [j |-> kind, n |-> n, s |-> text]
JMissing == JLiteral("<no member>", 0, "")

\* json.dumps of a value: bool is tested before int, a float is written with
\* a fraction
json_encode(p) ==
  CASE p.type = "bool" -> JLiteral(IF p.n = 1 THEN "true" ELSE "false", 0, "")
    [] p.type = "int" -> JLiteral("integer", p.n, "")
    [] p.type = "float" -> JLiteral("fraction", p.n, "")
    [] p.type = "str" -> JLiteral("string", 0, p.s)
    [] p.type = "NoneType" -> JLiteral("null", 0, "")

\* json.loads of a value: a number without fraction is an int, with one a float
json_decode(j) ==
  CASE j.j = "true" -> PyBool(TRUE)
    [] j.j = "false" -> PyBool(FALSE)
    [] j.j = "integer" -> PyInt(j.n)
    [] j.j = "fraction" -> PyFloat(j.n)
    [] j.j = "string" -> PyStr(j.s)
    [] j.j = "null" -> PyNone

DEFAULT_CONFIG ==
  [enabled |-> PyBool(TRUE),
   auto_launch_desktop |-> PyBool(TRUE),
   desktop_app_name |-> PyStr("Claude"),
   launch_timeout |-> PyInt(10),
   response_timeout |-> PyInt(1800),
   polling_interval |-> PyInt(1),
   auto_execute_proposals |-> PyBool(FALSE),
   create_backups |-> PyBool(TRUE),
   max_retries |-> PyInt(3)]

Fields == DOMAIN DEFAULT_CONFIG
BoolFields == {"enabled", "auto_launch_desktop", "auto_execute_proposals",
               "create_backups"}
IntFields == {"launch_timeout", "response_timeout", "max_retries"}

\* the config file: no file, text that is no JSON, a JSON array, or a JSON
\* object with its members
NoConfigFile == [kind |-> "absent", members |-> [f \in Fields |-> JMissing]]
MalformedConfigFile == [kind |-> "malformed", members |-> [f \in Fields |-> JMissing]]
ArrayConfigFile == [kind |-> "array", members |-> [f \in Fields |-> JMissing]]
\* a file whose read_text raises (no permission, not UTF-8)
UnreadableConfigFile == [kind |-> "unreadable", members |-> [f \in Fields |-> JMissing]]
ObjectConfigFile(members) == [kind |-> "object", members |-> members]

\* isinstance(v, int): bool is a subclass of int
IsInt(v) == v.type \in {"int", "bool"}
\* isinstance(v, (int, float))
IsNumber(v) == v.type \in {"int", "bool", "float"}

\* the check of _apply_config on the value given for a field
Accepted(field, v) ==
  CASE field \in BoolFields -> v.type = "bool"
    [] field = "desktop_app_name" -> v.type = "str"
    [] field \in IntFields -> IsInt(v) /\ v.n > 0
    [] field = "polling_interval" -> IsNumber(v) /\ v.n > 0

\* AutomationConfig._apply_config(config_data) on the object self
apply_config(self, config_data) ==
  [f \in Fields |->
     IF config_data[f] # MissingKey /\ Accepted(f, config_data[f])
       THEN config_data[f] ELSE self[f]]

\* the dict that save writes, without its last entry
config_data_without_max_retries(self) ==
  [f \in Fields |-> IF f = "max_retries" THEN MissingKey ELSE self[f]]

\* the dict config_data that save writes
config_data_of(self) == [f \in Fields |-> self[f]]

\* AutomationConfig.save: the file it leaves at the path
save(self) ==
  ObjectConfigFile([f \in Fields |->
    IF config_data_of(self)[f] = MissingKey THEN JMissing
    ELSE json_encode(config_data_of(self)[f])])

\* json.loads of a file that holds an object
config_loads(doc) ==
  [f \in Fields |->
     IF doc.members[f] = JMissing THEN MissingKey ELSE json_decode(doc.members[f])]

\* AutomationConfig(config_path): the new object and the file afterwards.
\* No file: the defaults are saved.  Text that does not parse, or parses to
\* something _apply_config cannot index: the exception is caught, the
\* defaults stay.
load(doc) ==
  CASE doc.kind = "absent" -> [obj |-> DEFAULT_CONFIG, doc |-> save(DEFAULT_CONFIG)]
    [] doc.kind = "object" ->
         [obj |-> apply_config(DEFAULT_CONFIG, config_loads(doc)), doc |-> doc]
    [] OTHER -> [obj |-> DEFAULT_CONFIG, doc |-> doc]

\* AutomationConfig.validate_config()
validate_config(self) ==
  /\ \A f \in BoolFields : self[f].type = "bool"
  /\ self.desktop_app_name.type = "str" /\ self.desktop_app_name.s # ""
  /\ \A f \in IntFields : IsInt(self[f]) /\ self[f].n > 0
  /\ IsNumber(self.polling_interval) /\ self.polling_interval.n > 0

NotConstructed == [f \in Fields |-> PyNone]

notConf == <<workflowVars, cls, retry, fs, cpm, pex>>

\* ---- loading a config file that was edited by hand
InitConfigLoad ==
  /\ WorkflowUnused
  /\ conf \in [doc : {NoConfigFile, MalformedConfigFile, ArrayConfigFile,
                      UnreadableConfigFile,
                      ObjectConfigFile([f \in Fields |-> JMissing])},
               writable : BOOLEAN,         \* path.write_text raises nothing
               edits : {0},
               pc : {"edit"},
               obj : {NotConstructed},
               given : {NoConfigFile},     \* history: the file that was loaded
               saved : {NotConstructed}]   \* history: the object that was saved
  /\ cls = Unused /\ retry = Unused /\ fs = Unused /\ cpm = Unused /\ pex = Unused

\* somebody writes a member into the JSON object of the config file
write_member ==
  /\ conf.pc = "edit"
  /\ conf.doc.kind = "object"
  /\ conf.edits < MaxDocMembers
  /\ \E f \in Fields, v \in PyValues :
       conf' = [conf EXCEPT !.doc.members[f] = json_encode(v), !.edits = @ + 1]
  /\ UNCHANGED notConf

SaveNeverRaises(doc, writable) == FALSE
\* self.save(config_path) of _load_from_file, which no try block encloses,
\* raises: there is no file and the path cannot be written.
SaveRaises(doc, writable) == doc.kind = "absent" /\ ~writable

\* config = AutomationConfig(config_path): the object is constructed, or the
\* error of the save leaves the constructor and there is no object.
load_config ==
  /\ conf.pc \in {"edit", "saved"}
  /\ conf' = IF SaveRaises(conf.doc, conf.writable)
               THEN [conf EXCEPT !.given = conf.doc, !.pc = "raised"]
               ELSE [conf EXCEPT !.obj = load(conf.doc).obj,
                                 !.doc = load(conf.doc).doc,
                                 !.given = conf.doc,
                                 !.pc = IF conf.pc = "edit" THEN "loaded" ELSE "reloaded"]
  /\ UNCHANGED notConf

NextConfigLoad ==
  \/ write_member
  \/ load_config

SpecConfigLoad == InitConfigLoad /\ [][NextConfigLoad]_vars

\* ---- saving an object whose fields were assigned, and loading it again
InitConfigSave ==
  /\ WorkflowUnused
  /\ conf = [doc |-> NoConfigFile,
             writable |-> TRUE,
             edits |-> 0,
             pc |-> "loaded",
             obj |-> DEFAULT_CONFIG,        \* AutomationConfig()
             given |-> NoConfigFile,
             saved |-> NotConstructed]
  /\ cls = Unused /\ retry = Unused /\ fs = Unused /\ cpm = Unused /\ pex = Unused

\* config.<field> = v, by the caller
assign_field ==
  /\ conf.pc = "loaded"
  /\ conf.edits < MaxAssignments
  /\ \E f \in Fields, v \in PyValues :
       conf' = [conf EXCEPT !.obj[f] = v, !.edits = @ + 1]
  /\ UNCHANGED notConf

\* config.save(config_path)
save_config ==
  /\ conf.pc = "loaded"
  /\ conf' = [conf EXCEPT !.doc = save(conf.obj), !.saved = conf.obj, !.pc = "saved"]
  /\ UNCHANGED notConf

NextConfigSave ==
  \/ assign_field
  \/ save_config
  \/ load_config

SpecConfigSave == InitConfigSave /\ [][NextConfigSave]_vars

\* ------------------------------------------------------------------ claims

\* the constraint of a field, as validate_config states it
FieldValid(field, v) ==
  CASE field \in BoolFields -> v.type = "bool"
    [] field = "desktop_app_name" -> v.type = "str" /\ v.s # ""
    [] field \in IntFields -> IsInt(v) /\ v.n > 0
    [] field = "polling_interval" -> IsNumber(v) /\ v.n > 0

\* C16, as stated: after loading a config document, a field that is missing,
\* wrong-typed or out of range holds its default, and every other field holds
\* exactly the value given in the document.
C16_BadFieldsGetDefaults ==
  (conf.pc = "loaded" /\ conf.given.kind = "object") =>
    \A f \in Fields :
      LET given == config_loads(conf.given)[f] IN
      IF given # MissingKey /\ FieldValid(f, given)
        THEN conf.obj[f] = given
        ELSE conf.obj[f] = DEFAULT_CONFIG[f]

\* C17, as stated: after loading any config document, validate_config() is
\* true.
C17_LoadedConfigIsValid ==
  conf.pc = "loaded" => validate_config(conf.obj)

Paths == {"a/x.py", "a/y.py", "b/x.py"}
NoPath == ""     \* file_info.get("path", "") of an entry without path: Path("")
Basename(p) == CASE p = "a/x.py" -> "x.py" [] p = "a/y.py" -> "y.py" [] p = "b/x.py" -> "x.py"
OldContents == {"v1", "v2"}
NewContents == {"new1", "new2"}

\* fs.content[p]: what the file at p holds, or Absent; fs.readonly: the paths
\* at which write_text raises PermissionError
FileSystems == [content : [Paths -> OldContents \cup {Absent}], readonly : SUBSET Paths]

exists(p) == p \in Paths /\ fs.content[p] # Absent

\* target_path.write_text(...) raises nothing: Path("") is the directory "."
Writable(p) == p \in Paths /\ p \notin fs.readonly

RECURSIVE SeqsUpTo(_, _)
SeqsUpTo(S, n) ==
  IF n = 0 THEN {<<>>}
  ELSE SeqsUpTo(S, n - 1) \cup
       {Append(q, x) : q \in {r \in SeqsUpTo(S, n - 1) : Len(r) = n - 1}, x \in S}

CodeFiles ==
  SeqsUpTo([path : Paths \cup {NoPath}, content : NewContents], MaxCodeFiles)

notPex == <<workflowVars, cls, retry, conf, cpm>>

InitApply ==
  /\ WorkflowUnused
  /\ fs \in FileSystems
  /\ pex \in [code_files : CodeFiles,
              pc : {"for"},
              i : {1},                \* the loop's position in code_files
              results : {<<>>},
              ret : {NotReturned},
              backups : {<<>>},       \* the backup directory
              written : {<<>>}]       \* history: per entry, did write_text succeed
  /\ cls = Unused /\ retry = Unused /\ conf = Unused /\ cpm = Unused

apply_code_file_returns_true(written) == TRUE
\* apply_code_file: return True after the write, False from the except block
apply_code_file_returns(written) == written

\* one pass of the loop: apply_code_file(file_path, content), with its
\* create_backup of an existing target, and results.append(result)
aacf_apply ==
  /\ pex.pc = "for"
  /\ pex.i <= Len(pex.code_files)
  /\ LET file_path == pex.code_files[pex.i].path
         content == pex.code_files[pex.i].content
         written == Writable(file_path)
     IN /\ fs' = IF written THEN [fs EXCEPT !.content[file_path] = content] ELSE fs
        /\ pex' = [pex EXCEPT
             !.backups = IF exists(file_path)
                           THEN Append(@, [of |-> file_path,
                                           content |-> fs.content[file_path]])
                           ELSE @,
             !.written = Append(@, written),
             !.results = Append(@, apply_code_file_returns(written)),
             !.i = @ + 1]
  /\ UNCHANGED notPex

\* return results
aacf_return ==
  /\ pex.pc = "for"
  /\ pex.i > Len(pex.code_files)
  /\ pex' = [pex EXCEPT !.ret = Returned(pex.results), !.pc = "done"]
  /\ UNCHANGED <<fs, notPex>>

NextApply ==
  \/ aacf_apply
  \/ aacf_return

SpecApply == InitApply /\ [][NextApply]_vars

\* ------------------------------------------------------------------ claims

\* C13: apply_all_code_files attempts apply_code_file for every entry of its
\* input, in input order, also after a failure; it returns one boolean per
\* entry, in the same order, each true exactly if that entry's write
\* succeeded, so all results are true iff every write succeeded.
C13_EveryEntryAttempted ==
  /\ Len(pex.written) = pex.i - 1
  /\ pex.results = pex.written
  /\ pex.ret # NotReturned =>
       /\ pex.ret = Returned(pex.results)
       /\ Len(pex.results) = Len(pex.code_files)
       /\ \A k \in 1..Len(pex.code_files) :
            pex.results[k] = Writable(pex.code_files[k].path)
       /\ (\A k \in 1..Len(pex.results) : pex.results[k])
            <=> (\A k \in 1..Len(pex.written) : pex.written[k])

\* the first entry failed, the second was still applied
C13_Witness ==
  /\ pex.ret = Returned(<<FALSE, TRUE>>)
  /\ pex.code_files[2].path \in Paths
  /\ fs.content[pex.code_files[2].path] = pex.code_files[2].content

\* ======================================================== CheckpointManager

\* the files before the checkpoint: the two files of the same base name hold
\* different contents; at most one path is read-only
CheckpointFileSystems ==
  {f \in FileSystems :
     /\ f.content["a/x.py"] \in {Absent, "v1"}
     /\ f.content["a/y.py"] \in {Absent, "v1"}
     /\ f.content["b/x.py"] \in {Absent, "v2"}
     /\ Cardinality(f.readonly) <= 1}

Basenames == {Basename(p) : p \in Paths}

\* backup_name = source_path.name
backup_name_of(source_path) == Basename(source_path)

\* create_checkpoint: the checkpoint directory and metadata["files"] after
\* the first k files of the list; a file that does not exist is skipped
RECURSIVE BackedUp(_, _)
BackedUp(files, k) ==
  IF k = 0 THEN [dir |-> [b \in Basenames |-> Absent], files |-> <<>>]
  ELSE LET prev == BackedUp(files, k - 1)
           source_path == files[k]
       IN IF ~exists(source_path) THEN prev
          ELSE [dir |-> [prev.dir EXCEPT ![backup_name_of(source_path)] =
                                           fs.content[source_path]],
                files |-> Append(prev.files,
                                 [original_path |-> source_path,
                                  backup_name |-> backup_name_of(source_path)])]

notCpm == <<workflowVars, cls, retry, conf, pex>>

InitCheckpoint ==
  /\ WorkflowUnused
  /\ fs \in CheckpointFileSystems
  /\ cpm \in [files : SeqsUpTo(Paths, MaxCheckpointFiles),
              new_files : {<<>>},
              pc : {"create"},
              dir : {[b \in Basenames |-> Absent]},   \* the checkpoint directory
              metadata : {<<>>},                      \* metadata["files"]
              k : {1},                                \* rollback's place in metadata["files"]
              created : {NotReturned},
              rolled_back : {NotReturned},
              changes : {0},
              at_checkpoint : {[p \in Paths |-> Absent]},  \* history: the files then
              at_rollback : {[p \in Paths |-> Absent]},    \* history: the files then
              failed : {{}},                          \* history: restores that raised
              damage : {None},                        \* what became of the checkpoint on disk
              as_created : {<<>>}]                    \* history: <<dir, metadata>> at the return
  /\ cls = Unused /\ retry = Unused /\ conf = Unused /\ pex = Unused

\* checkpoint_id = create_checkpoint(files)
create_checkpoint ==
  /\ cpm.pc = "create"
  /\ LET done == BackedUp(cpm.files, Len(cpm.files)) IN
       cpm' = [cpm EXCEPT !.dir = done.dir,
                          !.metadata = done.files,
                          !.as_created = <<done.dir, done.files>>,
                          !.created = Returned("cp_20250101_120000"),
                          !.at_checkpoint = fs.content,
                          !.pc = "work"]
  /\ UNCHANGED <<fs, notCpm>>

\* between checkpoint and rollback the files are changed: a writable file is
\* rewritten, created or deleted
change_file ==
  /\ cpm.pc = "work"
  /\ cpm.changes < MaxChanges
  /\ \E p \in Paths, c \in {"new1", Absent} :
       /\ Writable(p)
       /\ fs' = [fs EXCEPT !.content[p] = c]
  /\ cpm' = [cpm EXCEPT !.changes = @ + 1]
  /\ UNCHANGED notCpm

RollbackNeverAborts(damage) == FALSE
\* if not checkpoint_path.exists(): return False; and json.loads of a
\* manifest that cannot be read or parsed raises into the except block
RollbackAborts(damage) == damage \in {"no directory", "no manifest", "bad manifest"}

\* rollback(checkpoint_id, new_files): up to the loop over metadata["files"]
rollback_start ==
  /\ cpm.pc = "work"
  /\ \E new_files \in SeqsUpTo(Paths, MaxNewFiles) :
       cpm' = IF RollbackAborts(cpm.damage)
                THEN [cpm EXCEPT !.new_files = new_files,
                                 !.at_rollback = fs.content,
                                 !.rolled_back = Returned(FALSE),
                                 !.pc = "done"]
                ELSE [cpm EXCEPT !.new_files = new_files,
                                 !.at_rollback = fs.content,
                                 !.k = 1,
                                 !.pc = "restore"]
  /\ UNCHANGED <<fs, notCpm>>

\* one pass of the loop: the file is rewritten from its backup; a write_text
\* that raises leaves the try block, and rollback returns False
rollback_restore ==
  /\ cpm.pc = "restore"
  /\ cpm.k <= Len(cpm.metadata)
  /\ LET file_info == cpm.metadata[cpm.k]
         original_path == file_info.original_path
         backup == cpm.dir[file_info.backup_name]
     IN IF backup = Absent
          THEN /\ cpm' = [cpm EXCEPT !.k = @ + 1]
               /\ fs' = fs
        ELSE IF Writable(original_path)
          THEN /\ fs' = [fs EXCEPT !.content[original_path] = backup]
               /\ cpm' = [cpm EXCEPT !.k = @ + 1]
        ELSE /\ fs' = fs
             /\ cpm' = [cpm EXCEPT !.failed = @ \cup {cpm.k},
                                   !.rolled_back = Returned(FALSE),
                                   !.pc = "done"]
  /\ UNCHANGED notCpm

\* after the loop: every path of new_files that exists is unlinked; return True
rollback_delete ==
  /\ cpm.pc = "restore"
  /\ cpm.k > Len(cpm.metadata)
  /\ fs' = [fs EXCEPT !.content =
              [p \in Paths |->
                 IF \E n \in 1..Len(cpm.new_files) : cpm.new_files[n] = p
                   THEN Absent ELSE fs.content[p]]]
  /\ cpm' = [cpm EXCEPT !.rolled_back = Returned(TRUE), !.pc = "done"]
  /\ UNCHANGED notCpm

NextCheckpoint ==
  \/ create_checkpoint
  \/ change_file
  \/ rollback_start
  \/ rollback_restore
  \/ rollback_delete

SpecCheckpoint == InitCheckpoint /\ [][NextCheckpoint]_vars

\* ------------------------------------------------------------------ claims

RecordedPaths == {cpm.metadata[k].original_path : k \in 1..Len(cpm.metadata)}
NewFilePaths == {cpm.new_files[n] : n \in 1..Len(cpm.new_files)}
NewFilesDeleted ==
  \A p \in NewFilePaths : cpm.at_rollback[p] # Absent => fs.content[p] = Absent

\* C11, as stated: after rollback(id, new_files) has returned true for a
\* checkpoint of any list of files in any directories, every file recorded in
\* the manifest holds the content it had when the checkpoint was created and
\* every path of new_files that existed no longer exists (new_files naming
\* no recorded file).
C11_RollbackRestoresCheckpointContent ==
  (cpm.rolled_back = Returned(TRUE) /\ RecordedPaths \cap NewFilePaths = {}) =>
    /\ \A p \in RecordedPaths : fs.content[p] = cpm.at_checkpoint[p]
    /\ NewFilesDeleted

\* C12, as stated: when the restore of one recorded file fails, the other
\* recorded files are still restored from their backups and the existing
\* paths of new_files are still deleted (new_files naming no recorded file).
C12_RestoreFailureDoesNotAbort ==
  (cpm.pc = "done" /\ cpm.failed # {} /\ RecordedPaths \cap NewFilePaths = {}) =>
    /\ \A k \in 1..Len(cpm.metadata) :
         k \notin cpm.failed =>
           fs.content[cpm.metadata[k].original_path]
             = cpm.dir[cpm.metadata[k].backup_name]
    /\ NewFilesDeleted


\* ============================================================================
\* run_automated_workflow: failures, return value and configuration switches
\* ============================================================================

\* C21, as stated: run_automated_workflow never lets an exception escape;
\* every call that ends, ends by returning one of the tagged results, also
\* when persisting the request document fails.
C21_NoExceptionEscapes ==
  (entry = "workflow" /\ pc = "done") =>
    /\ result.kind = "returned"
    /\ result.status \in {"manual_mode", "timeout", "success"}

\* The keys of the dictionary run_automated_workflow returns, and its
\* truthiness for a caller that writes `if response:` (a dict is true when
\* it has a key).
Keys(r) ==
  {k \in {"request_id", "status", "response"} :
     k = "response" => r.response # NoResponse}
bool(r) == Keys(r) # {}

\* C22, as stated: the value run_automated_workflow returns is true for a
\* caller testing truthiness exactly when a response was received, and on
\* success it is the response data itself (it has the keys of the document,
\* not the keys request_id and status).
C22_TruthyIffResponseReceived ==
  WorkflowReturned =>
    /\ bool(result) <=> (result.status = "success")
    /\ bool(result) => Keys(result) \cap {"request_id", "status"} = {}

\* run_automated_workflow under a configuration whose enabled is false.
InitDisabled == Entered(AutomationConfigs({FALSE}), {"workflow"})

SpecDisabled == InitDisabled /\ [][Next]_vars

\* C23, as stated: when config.enabled is false, run_automated_workflow does
\* not launch the desktop application and returns status manual_mode,
\* whatever auto_launch_desktop is.
C23_DisabledIsManualMode ==
  (~config.enabled /\ entry = "workflow") =>
    /\ calls.lwr = 0
    /\ calls.launch = 0
    /\ WorkflowReturned => result.status = "manual_mode"

\* C24: launch_with_retry sleeps exactly one second between two consecutive
\* attempts and never after the last attempt or after a successful one: when
\* the k-th launch() is invoked k-1 sleeps have been taken, a call that
\* succeeds at attempt k has slept k-1 times, a call whose max_retries
\* attempts all fail has slept max_retries-1 times, and every sleep lasts
\* one second.
C24_OneSleepBetweenAttempts ==
  LET n == Len(attempts) IN
  /\ calls.lwr_sleep <= config.max_retries - 1
  /\ calls.lwr_sleep <= n
  /\ calls.launch >= 1 => calls.lwr_sleep >= calls.launch - 1
  /\ pc = "lwr_launch" => calls.lwr_sleep = attempt - 1
  /\ lwr_ret = Returned(TRUE) => calls.lwr_sleep = n - 1
  /\ lwr_ret = Returned(FALSE) => calls.lwr_sleep = config.max_retries - 1
  /\ pc # "lwr_sleep" =>
       calls.lwr_sleep_ticks = Seconds(LaunchRetrySleepSeconds) * calls.lwr_sleep

C24_Witness ==
  /\ lwr_ret = Returned(FALSE)
  /\ config.max_retries = 2
  /\ Len(attempts) = 2
  /\ calls.lwr_sleep = 1
  /\ calls.lwr_sleep_ticks = Seconds(LaunchRetrySleepSeconds)


\* ============================================================================
\* ResponseMonitor.wait_for_response called directly, repeatedly, on one monitor
\* ============================================================================

\* The client calls wait_for_response again on the same monitor object: the
\* call has its own start_time and loop; self.cancelled is what it was.
wait_again ==
  /\ entry = "wait"
  /\ pc = "waited"
  /\ calls.wfr < MaxWaits
  /\ pc' = "wfr_start"
  /\ calls' = Called("wfr")
  /\ wfr_ret' = NotReturned
  /\ polls' = <<>>
  /\ wfr_hist' = NoWait(cancelled)
  /\ UNCHANGED <<config, entry, now, wake, file, changes, monitor, cancelled,
                 current_request_id, request_id, attempt, lwr_ret, start_time, rr_max,
                 rr_ret, result, attempts, reads>>
  /\ UNCHANGED componentVars

\* The launcher's fields of the configuration play no part in the monitor.
InitMonitor ==
  Entered({c \in AutomationConfigs({TRUE}) :
             c.auto_launch_desktop /\ c.max_retries = 1 /\ c.launch_timeout = 1},
          {"wait"})

NextMonitor ==
  \/ WriteResponse
  \/ cancel
  \/ Tick
  \/ wfr_start
  \/ wfr_loop
  \/ wfr_cancel
  \/ wfr_exists
  \/ wfr_sleep
  \/ wait_again

SpecMonitor == InitMonitor /\ [][NextMonitor]_vars

\* A call of wait_for_response that found the flag already set when it was
\* called makes no existence check and no sleep, and if it has returned it
\* returned false at once.
CancelledCallDoesNothing ==
  wfr_hist.cancel_pc = "before" =>
    /\ cancelled
    /\ polls = <<>>
    /\ wfr_hist.sleeps = 0
    /\ WaitReturned => (wfr_ret = Returned(FALSE) /\ wfr_hist.returned_at = 0)

\* C25: if cancelled is already true when wait_for_response is called (with
\* response_timeout > 0), the call returns false without any existence check
\* or sleep, even when the response file exists; and the flag is never
\* reset, so every later wait_for_response on the same monitor also returns
\* false.
C25_CancelledMonitorStaysCancelled ==
  /\ []CancelledCallDoesNothing
  /\ [][cancelled => cancelled']_vars

C25_Witness ==
  /\ entry = "wait"
  /\ calls.wfr = 2
  /\ wfr_hist.cancel_pc = "before"
  /\ wfr_ret = Returned(FALSE)
  /\ file # Absent


\* ============================================================================
\* ProposalExecutor.execute_all_steps
\* ============================================================================

\* The step descriptors of a response (dictionaries, told apart by their
\* "step" number).
Steps == {"step 1", "step 2", "step 3"}

\* self.execute_step(step, i, total) is looked up on the object: the method
\* of ProposalExecutor prints the step and returns True; the method of a
\* subclass that carries the step out returns True or False.
execute_step(own) == IF own THEN {TRUE} ELSE BOOLEAN

InitSteps ==
  /\ WorkflowUnused
  /\ pex \in [steps : SeqsUpTo(Steps, MaxSteps),
              own : BOOLEAN,          \* execute_step is ProposalExecutor's own
              pc : {"eas_for"},
              i : {1},                \* enumerate(steps, 1)
              result : {TRUE},        \* local result; unbound before the first step
              results : {<<>>},
              ret : {NotReturned},
              executed : {<<>>}]      \* history: the steps passed to execute_step
  /\ cls = Unused /\ retry = Unused /\ conf = Unused /\ cpm = Unused /\ fs = Unused

\* for i, step in enumerate(steps, 1)
eas_for ==
  /\ pex.pc = "eas_for"
  /\ pex' = [pex EXCEPT !.pc = IF pex.i <= Len(pex.steps) THEN "eas_step" ELSE "eas_return"]
  /\ UNCHANGED <<fs, notPex>>

\* result = self.execute_step(step, i, total); results.append(result)
eas_step ==
  /\ pex.pc = "eas_step"
  /\ \E r \in execute_step(pex.own) :
       pex' = [pex EXCEPT !.result = r,
                          !.results = Append(@, r),
                          !.executed = Append(@, pex.steps[pex.i]),
                          !.pc = "eas_if"]
  /\ UNCHANGED <<fs, notPex>>

StepFailedNever(r) == FALSE
\* if not result
StepFailed(r) == ~r

\* if not result: break
eas_if ==
  /\ pex.pc = "eas_if"
  /\ pex' = IF StepFailed(pex.result)
              THEN [pex EXCEPT !.pc = "eas_return"]
              ELSE [pex EXCEPT !.i = @ + 1, !.pc = "eas_for"]
  /\ UNCHANGED <<fs, notPex>>

\* return results
eas_return ==
  /\ pex.pc = "eas_return"
  /\ pex' = [pex EXCEPT !.ret = Returned(pex.results), !.pc = "done"]
  /\ UNCHANGED <<fs, notPex>>

NextSteps ==
  \/ eas_for
  \/ eas_step
  \/ eas_if
  \/ eas_return

SpecSteps == InitSteps /\ [][NextSteps]_vars

\* C26: execute_all_steps runs the steps in input order and stops at the
\* first step whose execute_step reports failure: the steps executed are a
\* prefix of the input, no step after a failed one is executed, and the
\* returned list has one entry per executed step, all true except possibly
\* the last; it is the whole input when no step failed.
C26_StopsAtFirstFailure ==
  LET n == Len(pex.executed) IN
  /\ n <= Len(pex.steps)
  /\ \A k \in 1..n : pex.executed[k] = pex.steps[k]
  /\ Len(pex.results) = n
  /\ \A k \in 1..n : ~pex.results[k] => k = n
  /\ pex.ret # NotReturned =>
       /\ pex.ret = Returned(pex.results)
       /\ (\A k \in 1..n : pex.results[k]) => n = Len(pex.steps)

C26_Witness ==
  /\ pex.ret # NotReturned
  /\ Len(pex.steps) = 3
  /\ pex.results = <<TRUE, FALSE>>
  /\ pex.executed = <<pex.steps[1], pex.steps[2]>>


\* ============================================================================
\* ProposalExecutor.apply_code_file, step by step
\* ============================================================================

\* Path(file_path).exists(): Path("") is the current directory, which exists
TargetExists(p) == p = NoPath \/ exists(p)

InitApplyFile ==
  /\ WorkflowUnused
  /\ fs \in FileSystems
  /\ \E file_path \in Paths \cup {NoPath}, content \in NewContents :
       pex = [file_path |-> file_path,
              content |-> content,
              pc |-> "acf_exists",
              ret |-> NotReturned,
              backups |-> <<>>,       \* the backup directory
              \* history
              at_call |-> IF file_path \in Paths THEN fs.content[file_path] ELSE Absent,
              trace |-> <<>>,         \* the effects attempted, in order
              raised |-> None]        \* the step whose exception reached apply_code_file
  /\ cls = Unused /\ retry = Unused /\ conf = Unused /\ cpm = Unused

create_backup_catches_nothing(e) == FALSE
\* create_backup: except Exception as e: return None
create_backup_catches(e) == isinstance(e, {"Exception"})

\* apply_code_file: except Exception as e: return False
apply_code_file_catches(e) == isinstance(e, {"Exception"})

\* The call rec after the step `step` raised e into the body of
\* apply_code_file.
StepRaised(rec, step, e) ==
  [rec EXCEPT !.raised = step,
              !.ret = IF apply_code_file_catches(e) THEN Returned(FALSE) ELSE Raises(e),
              !.pc = "done"]

\* if target_path.exists(): self.create_backup(file_path)
acf_exists ==
  /\ pex.pc = "acf_exists"
  /\ pex' = [pex EXCEPT !.pc = IF TargetExists(pex.file_path) THEN "acf_backup" ELSE "acf_mkdir"]
  /\ UNCHANGED <<fs, notPex>>

\* What create_backup's read_text / write_text can raise: None is success.
\* The directory Path("") cannot be read; a file may not be UTF-8; the
\* backup directory may refuse the write.
BackupErrors(p) ==
  IF p = NoPath THEN {"IsADirectoryError"}
  ELSE {None, "UnicodeDecodeError", "PermissionError"}

\* create_backup(file_path): copies the target's text into the backup
\* directory; its own except block turns a failure into the result None,
\* which apply_code_file ignores.
acf_backup ==
  /\ pex.pc = "acf_backup"
  /\ \E e \in BackupErrors(pex.file_path) :
       LET attempted == [pex EXCEPT !.trace = Append(@, "backup")] IN
       pex' = IF e = None
                THEN [attempted EXCEPT
                        !.backups = Append(@, [of |-> pex.file_path,
                                               content |-> fs.content[pex.file_path]]),
                        !.pc = "acf_mkdir"]
              ELSE IF create_backup_catches(e)
                THEN [attempted EXCEPT !.pc = "acf_mkdir"]
              ELSE StepRaised(attempted, "create_backup", e)
  /\ UNCHANGED <<fs, notPex>>

\* target_path.parent.mkdir(parents=True, exist_ok=True): the parent of
\* Path("") is the current directory; another parent may be refused.
acf_mkdir ==
  /\ pex.pc = "acf_mkdir"
  /\ \E e \in IF pex.file_path = NoPath THEN {None} ELSE {None, "PermissionError"} :
       pex' = IF e = None THEN [pex EXCEPT !.pc = "acf_write"] ELSE StepRaised(pex, "mkdir", e)
  /\ UNCHANGED <<fs, notPex>>

\* target_path.write_text(content, encoding="utf-8"); return True
acf_write ==
  /\ pex.pc = "acf_write"
  /\ LET attempted == [pex EXCEPT !.trace = Append(@, "write")] IN
     IF Writable(pex.file_path)
       THEN /\ fs' = [fs EXCEPT !.content[pex.file_path] = pex.content]
            /\ pex' = [attempted EXCEPT !.ret = Returned(TRUE), !.pc = "done"]
       ELSE /\ pex' = StepRaised(attempted, "write_text",
                               IF pex.file_path = NoPath THEN "IsADirectoryError"
                               ELSE "PermissionError")
            /\ UNCHANGED fs
  /\ UNCHANGED notPex

NextApplyFile ==
  \/ acf_exists
  \/ acf_backup
  \/ acf_mkdir
  \/ acf_write

SpecApplyFile == InitApplyFile /\ [][NextApplyFile]_vars

\* C27: apply_code_file on an existing target first attempts a backup, which
\* when it succeeds holds the target's content from before the call, and only
\* then overwrites the target; a failed backup does not keep the call from
\* going on to the write; when the call returns true the target holds the
\* given content; and whatever step raises, the call returns false instead
\* of raising.
C27_BackupThenWrite ==
  LET existing == pex.file_path \in Paths /\ pex.at_call # Absent
      k == Len(pex.trace)
  IN
  /\ \A i \in 1..k : pex.trace[i] = "write" =>
       /\ i = k
       /\ existing => (i = 2 /\ pex.trace[1] = "backup")
  /\ \A b \in 1..Len(pex.backups) :
       /\ pex.backups[b].of = pex.file_path
       /\ pex.backups[b].content = pex.at_call
  /\ pex.raised # "create_backup"
  /\ pex.ret = Returned(TRUE) =>
       /\ fs.content[pex.file_path] = pex.content
       /\ pex.raised = None
  /\ pex.pc = "done" =>
       /\ pex.ret \in {Returned(TRUE), Returned(FALSE)}
       /\ pex.ret = Returned(FALSE) <=> pex.raised # None

\* an existing target whose backup failed and which was overwritten all the same
C27_Witness ==
  /\ pex.file_path \in Paths
  /\ pex.at_call # Absent
  /\ pex.trace = <<"backup", "write">>
  /\ pex.backups = <<>>
  /\ pex.ret = Returned(TRUE)
  /\ fs.content[pex.file_path] = pex.content


\* ============================================================================
\* CheckpointManager: create_checkpoint and list_checkpoints
\* ============================================================================

\* the input files that existed when the checkpoint was created, in input order
ExistingFiles ==
  SelectSeq(cpm.files, LAMBDA p : cpm.at_checkpoint[p] # Absent)

\* C28, as stated: create_checkpoint(files) records in the manifest exactly
\* the input files that exist at that moment, in input order, each with a
\* stored copy equal to its content at that moment; files that do not exist
\* are skipped and a checkpoint id is still returned.
C28_ManifestAndCopies ==
  cpm.created # NotReturned =>
    /\ cpm.created # Returned(None)
    /\ Len(cpm.metadata) = Len(ExistingFiles)
    /\ \A k \in 1..Len(cpm.metadata) :
         /\ cpm.metadata[k].original_path = ExistingFiles[k]
         /\ cpm.dir[cpm.metadata[k].backup_name]
              = cpm.at_checkpoint[cpm.metadata[k].original_path]

\* The checkpoint directory as list_checkpoints finds it.  An entry is a
\* directory cp_<timestamp> or a plain file; the timestamps (fixed-width
\* strings in the code, compared as strings) are numbered in time order.
\* metadata.json is well formed, not JSON, or missing.
Timestamps == 1..MaxCheckpoints
WellFormed == "{\"checkpoint_id\": ..., \"timestamp\": ..., \"files\": [...]}"
DirEntries ==
  {e \in [timestamp : Timestamps, is_dir : BOOLEAN,
          manifest : {WellFormed, Malformed, Absent}] :
     ~e.is_dir => e.manifest = Absent}

\* iterdir() yields the entries, whose names differ, in an order of the file
\* system's choosing: the listings of at most n entries.
RECURSIVE ListingsUpTo(_)
ListingsUpTo(n) ==
  IF n = 0 THEN {<<>>}
  ELSE LET shorter == ListingsUpTo(n - 1) IN
       shorter \cup
       UNION {{Append(l, e) :
                 e \in {d \in DirEntries :
                          \A a \in 1..Len(l) : l[a].timestamp # d.timestamp}} :
              l \in {x \in shorter : Len(x) = n - 1}}
Listings == ListingsUpTo(MaxCheckpoints)

\* checkpoints.sort(key=lambda x: x.get("timestamp", ""), reverse=True)
RECURSIVE sort_reverse(_)
sort_reverse(checkpoints) ==
  IF checkpoints = <<>> THEN <<>>
  ELSE LET newest == CHOOSE a \in 1..Len(checkpoints) :
                       \A b \in 1..Len(checkpoints) :
                         \/ checkpoints[b].timestamp < checkpoints[a].timestamp
                         \/ (checkpoints[b].timestamp = checkpoints[a].timestamp /\ a <= b)
           others == [b \in 1..(Len(checkpoints) - 1) |->
                        IF b < newest THEN checkpoints[b] ELSE checkpoints[b + 1]]
       IN <<checkpoints[newest]>> \o sort_reverse(others)

InitList ==
  /\ WorkflowUnused
  /\ cpm \in [entries : Listings,
              i : {1},                \* the place of the loop in iterdir()
              checkpoints : {<<>>},
              pc : {"lc_for"},
              ret : {NotReturned},
              raised : {None}]        \* history: the exception the try block caught
  /\ cls = Unused /\ retry = Unused /\ conf = Unused /\ pex = Unused /\ fs = Unused

\* one pass of the loop over iterdir(): skip what is not a directory or has
\* no metadata.json, parse the manifest (json.loads may raise) and append it
lc_for ==
  /\ cpm.pc = "lc_for"
  /\ cpm' =
       IF cpm.i > Len(cpm.entries) THEN [cpm EXCEPT !.pc = "lc_sort"]
       ELSE LET checkpoint_path == cpm.entries[cpm.i] IN
            IF ~checkpoint_path.is_dir \/ checkpoint_path.manifest = Absent
              THEN [cpm EXCEPT !.i = @ + 1]
            ELSE IF checkpoint_path.manifest = Malformed
              THEN [cpm EXCEPT !.raised = JSONDecodeError, !.pc = "lc_except"]
            ELSE [cpm EXCEPT
                    !.checkpoints = Append(@, [timestamp |-> checkpoint_path.timestamp]),
                    !.i = @ + 1]
  /\ UNCHANGED <<fs, notCpm>>

\* after the loop: checkpoints.sort(...)
lc_sort ==
  /\ cpm.pc = "lc_sort"
  /\ cpm' = [cpm EXCEPT !.checkpoints = sort_reverse(@), !.pc = "lc_return"]
  /\ UNCHANGED <<fs, notCpm>>

\* except Exception as e: print(...)
lc_except ==
  /\ cpm.pc = "lc_except"
  /\ cpm' = [cpm EXCEPT !.pc = "lc_return"]
  /\ UNCHANGED <<fs, notCpm>>

\* return checkpoints
lc_return ==
  /\ cpm.pc = "lc_return"
  /\ cpm' = [cpm EXCEPT !.ret = Returned(cpm.checkpoints), !.pc = "done"]
  /\ UNCHANGED <<fs, notCpm>>

NextList ==
  \/ lc_for
  \/ lc_sort
  \/ lc_except
  \/ lc_return

SpecList == InitList /\ [][NextList]_vars

\* the timestamps of the checkpoints whose manifest is readable
Readable ==
  {cpm.entries[a].timestamp :
     a \in {b \in 1..Len(cpm.entries) :
              cpm.entries[b].is_dir /\ cpm.entries[b].manifest = WellFormed}}

\* C29, as stated: list_checkpoints returns every checkpoint whose manifest
\* is readable, newest first; a corrupt manifest omits only that checkpoint
\* and never makes the call fail or drop other checkpoints.
C29_AllReadableNewestFirst ==
  cpm.pc = "done" =>
    /\ cpm.ret = Returned(cpm.checkpoints)
    /\ {cpm.checkpoints[a].timestamp : a \in 1..Len(cpm.checkpoints)} = Readable
    /\ Len(cpm.checkpoints) = Cardinality(Readable)
    /\ \A a, b \in 1..Len(cpm.checkpoints) :
         a < b => cpm.checkpoints[a].timestamp > cpm.checkpoints[b].timestamp

\* The same without a corrupt manifest in the directory.
C29_WithoutCorruptManifest ==
  (\A a \in 1..Len(cpm.entries) : cpm.entries[a].manifest # Malformed) =>
    C29_AllReadableNewestFirst


\* ============================================================================
\* ErrorHandler.handle_error
\* ============================================================================

InitHandle ==
  /\ WorkflowUnused
  /\ cls \in [error : ErrorClasses,
              context : Contexts,
              raise_on_critical : BOOLEAN,
              pc : {"he_classify"},
              severity : {None},
              ret : {NotReturned},
              log : {<<>>}]           \* history: the log_error calls, each
                                      \* [severity, written]
  /\ retry = Unused /\ conf = Unused /\ fs = Unused /\ cpm = Unused /\ pex = Unused

\* severity = self.classify_error(error, context)
he_classify ==
  /\ cls.pc = "he_classify"
  /\ cls' = [cls EXCEPT !.severity = classify_error(cls.error, cls.context),
                        !.pc = "he_log"]
  /\ UNCHANGED notCls

\* self.log_error(error, context, severity): the log file is written, or the
\* write fails and log_error returns None; handle_error ignores the result.
he_log ==
  /\ cls.pc = "he_log"
  /\ \E written \in BOOLEAN :
       cls' = [cls EXCEPT
                 !.log = Append(@, [severity |-> cls.severity, written |-> written]),
                 !.pc = "he_notify"]
  /\ UNCHANGED notCls

handle_error_continues(severity, raise_on_critical) == Returned(TRUE)
\* if severity == "critical": raise error or return False; otherwise
\* (recoverable, warning) return True
handle_error_returns(severity, raise_on_critical) ==
  IF severity = "critical"
    THEN IF raise_on_critical THEN Raises(cls.error) ELSE Returned(FALSE)
  ELSE IF severity = "recoverable" THEN Returned(TRUE)
  ELSE Returned(TRUE)

\* the notification by severity, and the return or the raise
he_notify ==
  /\ cls.pc = "he_notify"
  /\ cls' = [cls EXCEPT !.ret = handle_error_returns(cls.severity, cls.raise_on_critical),
                        !.pc = "done"]
  /\ UNCHANGED notCls

NextHandle ==
  \/ he_classify
  \/ he_log
  \/ he_notify

SpecHandle == InitHandle /\ [][NextHandle]_vars

\* C30: handle_error returns false exactly when the error is classified
\* critical (and it returns), true when it is classified recoverable or
\* warning; it raises the error only when the classification is critical and
\* raise_on_critical is true; and whenever it has returned or raised it has
\* attempted exactly one log entry before, with the severity of the
\* classification.
C30_HandleError ==
  LET severity == classify_error(cls.error, cls.context) IN
  /\ cls.ret # NotReturned =>
       /\ Len(cls.log) = 1
       /\ cls.log[1].severity = severity
  /\ cls.pc = "done" =>
       /\ cls.ret # NotReturned
       /\ cls.ret = Returned(FALSE) <=> (severity = "critical" /\ ~cls.raise_on_critical)
       /\ cls.ret = Returned(TRUE) <=> severity \in {"recoverable", "warning"}
       /\ cls.ret = Raises(cls.error) <=> (severity = "critical" /\ cls.raise_on_critical)

\* a critical error with raise_on_critical false: logged (the write failed),
\* then false returned
C30_Witness ==
  /\ cls.pc = "done"
  /\ classify_error(cls.error, cls.context) = "critical"
  /\ ~cls.raise_on_critical
  /\ cls.log = <<[severity |-> "critical", written |-> FALSE]>>
  /\ cls.ret = Returned(FALSE)


\* ============================================================================
\* AutomationConfig: loading from a missing or unreadable file
\* ============================================================================

\* the loaded file could not be read or parsed
Unparsable == conf.given.kind \in {"malformed", "unreadable"}

\* After a load of a file that cannot be read or parsed: the defaults in all
\* fields, nothing raised, the file as it was.
UnparsableGivesDefaults ==
  (conf.pc \in {"loaded", "raised"} /\ Unparsable) =>
    /\ conf.pc = "loaded"
    /\ conf.obj = DEFAULT_CONFIG
    /\ conf.doc = conf.given

\* C31, as stated: loading a config from a path that does not exist creates
\* a document at that path holding the default values and yields the
\* defaults; loading from a document that cannot be read or parsed yields
\* the defaults for all fields, raises nothing and leaves the document
\* unchanged.
C31_MissingFileIsCreated ==
  /\ (conf.pc \in {"loaded", "raised"} /\ conf.given.kind = "absent") =>
       /\ conf.pc = "loaded"
       /\ conf.obj = DEFAULT_CONFIG
       /\ conf.doc.kind = "object"
       /\ config_loads(conf.doc) = DEFAULT_CONFIG
  /\ UnparsableGivesDefaults

\* What the code does for a missing file: at a path that can be written it
\* creates a document holding the defaults and yields the defaults; at a
\* path that cannot be written the error of the write leaves the
\* constructor, no object is yielded and no document is created.
MissingFileIsCreatedIfWritable ==
  /\ (conf.pc \in {"loaded", "raised"} /\ conf.given.kind = "absent") =>
       IF conf.writable
         THEN /\ conf.pc = "loaded"
              /\ conf.obj = DEFAULT_CONFIG
              /\ conf.doc.kind = "object"
              /\ config_loads(conf.doc) = DEFAULT_CONFIG
         ELSE /\ conf.pc = "raised"
              /\ conf.obj = NotConstructed
              /\ conf.doc = NoConfigFile
  /\ UnparsableGivesDefaults


\* ============================================================================
\* AutomationState and the workflow
\* ============================================================================

\* AutomationState(request_id): the object its constructor makes.
AutomationState(id) ==
  [request_id |-> id, state |-> "pending", desktop_launched |-> FALSE,
   response_received |-> FALSE, execution_started |-> FALSE, errors |-> <<>>,
   can_cancel |-> TRUE]

\* The AutomationState objects that exist for the requests of the bridge.
\* No statement of AutomatedBridge, DesktopLauncher or ResponseMonitor
\* constructs the class or assigns to a field of it: there are none, at any
\* point of a run.
WorkflowStates == {s \in {AutomationState(id) : id \in RequestIds} : FALSE}

\* C32, as stated: for every workflow run an AutomationState for its request
\* id exists from the moment the request begins, and when
\* run_automated_workflow returns its state is completed or failed.
C32_StateTracksTheRun ==
  (entry = "workflow" /\ current_request_id # None) =>
    \E s \in WorkflowStates :
      /\ s.request_id = current_request_id
      /\ WorkflowReturned => s.state \in {"completed", "failed"}


\* ============================================================================
\* Termination of run_automated_workflow
\* ============================================================================

\* a statement of the client thread
ClientStep ==
  \/ create_automated_request \/ raw_step2
  \/ lwr_for \/ lwr_launch \/ wur_start \/ wur_loop \/ wur_check \/ wur_sleep
  \/ lwr_retry \/ lwr_sleep \/ raw_launched \/ raw_step3
  \/ wfr_start \/ wfr_loop \/ wfr_cancel \/ wfr_exists \/ wfr_sleep \/ raw_waited
  \/ rr_for \/ rr_exists \/ rr_read \/ rr_sleep \/ raw_read

\* The workflow with a client thread that keeps running and a clock that
\* keeps advancing; nothing is assumed of the external actor and of the
\* cancelling thread.
SpecLive == Init /\ [][Next]_vars /\ WF_vars(ClientStep) /\ WF_vars(Tick)

\* C33, as stated: run_automated_workflow always terminates and a result is
\* eventually returned, whatever the desktop application and the external
\* actor do.
C33_ResultEventuallyReturned ==
  <>(entry = "workflow" => WorkflowReturned)

\* Every call ends: by a result, or by the error of step 1.
EveryCallEnds == <>(pc = "done")


\* ============================================================================
\* CheckpointManager: a later create_checkpoint, a damaged checkpoint
\* ============================================================================

\* create_checkpoint into a checkpoint directory that holds dir already
\* (checkpoint_path.mkdir(exist_ok=True)): the copies after the first k files
RECURSIVE CopiedOver(_, _, _)
CopiedOver(dir, files, k) ==
  IF k = 0 THEN dir
  ELSE LET prev == CopiedOver(dir, files, k - 1)
           source_path == files[k]
       IN IF ~exists(source_path) THEN prev
          ELSE [prev EXCEPT ![backup_name_of(source_path)] = fs.content[source_path]]

\* A later create_checkpoint(files).  Its id is cp_<the clock, to the
\* second>: in the second of the first call it is the id of the first
\* checkpoint, whose directory it writes into and whose metadata.json it
\* replaces; in a later second it makes a directory of its own.
create_checkpoint_again ==
  /\ cpm.pc = "work"
  /\ cpm.changes < MaxChanges
  /\ \E files \in SeqsUpTo(Paths, MaxCheckpointFiles), same_second \in BOOLEAN :
       cpm' = IF same_second
                THEN [cpm EXCEPT
                        !.dir = CopiedOver(cpm.dir, files, Len(files)),
                        !.metadata = BackedUp(files, Len(files)).files,
                        !.changes = @ + 1]
                ELSE [cpm EXCEPT !.changes = @ + 1]
  /\ UNCHANGED <<fs, notCpm>>

NextRecreate ==
  \/ create_checkpoint
  \/ change_file
  \/ create_checkpoint_again
  \/ rollback_start
  \/ rollback_restore
  \/ rollback_delete

SpecRecreate == InitCheckpoint /\ [][NextRecreate]_vars

\* C34, as stated: once create_checkpoint has returned an id, the manifest
\* and the stored copies of that checkpoint are never changed by a later
\* operation (rollback, or a later create_checkpoint however soon it
\* follows).
C34_CheckpointIsImmutable ==
  cpm.created # NotReturned => <<cpm.dir, cpm.metadata>> = cpm.as_created

\* rollback and the changes of the files leave the checkpoint as it is
\* (SpecCheckpoint, where no later create_checkpoint is made).
ImmutableUnderRollback == [][cpm.created # NotReturned =>
                               <<cpm.dir, cpm.metadata>>' = <<cpm.dir, cpm.metadata>>]_vars


\* ---------------------------------------------------------------------
\* ClaudeBridge: the request, response and archive folders
\* (bridge_helper.py), and create_automated_request on top of them.
\* In this part fs is the record of the three folders and of the calls made.

notFs == <<workflowVars, cls, retry, conf, cpm, pex>>

\* how many requests a run creates
MaxCreates == 2

Titles == {"first", "second"}

\* the files of files_to_analyze that exist and are copied
AnalysisFiles == {"x.py"}

\* the clock, in whole seconds, as strftime("%Y%m%d_%H%M%S") shows it:
\* "20250101_120000", then "20250101_120001"
NextSecond(s) == IF s = "20250101_120000" THEN "20250101_120001" ELSE s

\* request_id = f"req_{timestamp}"
RequestIdAt(s) ==
  IF s = "20250101_120000" THEN "req_20250101_120000" ELSE "req_20250101_120001"

\* self.responses_path / f"{request_id}_response.json"
response_file(id) ==
  IF id = "req_20250101_120000"
  THEN "help-responses/req_20250101_120000_response.json"
  ELSE "help-responses/req_20250101_120001_response.json"

\* a folder that is not there, and a folder with its content
Missing == <<>>

Folder(content) == <<content>>

InitBridge ==
  /\ WorkflowUnused
  /\ fs = [clock |-> "20250101_120000",
           requests |-> [id \in RequestIds |-> Absent],   \* help-requests/<id>.json
           analysis |-> [id \in RequestIds |-> Missing],  \* help-requests/<id>/
           responses |-> [id \in RequestIds |-> Absent],  \* help-responses/<id>_response.json
           archive |-> [id \in RequestIds |-> Missing],   \* archive/<id>/
           monitor |-> None,          \* the path the bound ResponseMonitor watches
           created |-> <<>>,          \* history: the create calls, each
                                      \* [id, title, watched]
           last |-> <<>>]             \* history: the archive_completed call, if
                                      \* it was the last call made
  /\ cls = Unused /\ retry = Unused /\ conf = Unused /\ cpm = Unused /\ pex = Unused

\* the clock moves on to the next second
bridge_tick ==
  /\ fs.clock # NextSecond(fs.clock)
  /\ fs' = [fs EXCEPT !.clock = NextSecond(@)]
  /\ UNCHANGED notFs

\* the folders after create_help_request(title, ...) at the clock's second:
\* the request document is written, the analysis folder is made if it is
\* not there and the files are copied into it
HelpRequestWritten(b, title, copied) ==
  LET id == RequestIdAt(b.clock)
  IN [b EXCEPT !.requests[id] = title,
               !.analysis[id] = IF @ = Missing THEN Folder(copied)
                                 ELSE Folder(@[1] \cup copied),
               !.last = <<>>]

create_help_request ==
  /\ Len(fs.created) < MaxCreates
  /\ \E title \in Titles, copied \in SUBSET AnalysisFiles :
       fs' = [HelpRequestWritten(fs, title, copied) EXCEPT
                !.created = Append(@, [id |-> RequestIdAt(fs.clock),
                                       title |-> title,
                                       watched |-> None])]
  /\ UNCHANGED notFs

\* create_automated_request: create_help_request, then a ResponseMonitor
\* bound to the response path of the id it returned
bridge_create_automated_request ==
  /\ Len(fs.created) < MaxCreates
  /\ \E title \in Titles, copied \in SUBSET AnalysisFiles :
       LET id == RequestIdAt(fs.clock)
       IN fs' = [HelpRequestWritten(fs, title, copied) EXCEPT
                   !.monitor = response_file(id),
                   !.created = Append(@, [id |-> id,
                                          title |-> title,
                                          watched |-> response_file(id)])]
  /\ UNCHANGED notFs

\* C35: two create calls return different ids, and the monitors of two
\* automated requests watch different response paths.
C35_EachRequestHasItsOwnId ==
  \A i, j \in 1..Len(fs.created) :
    i < j =>
      /\ fs.created[i].id # fs.created[j].id
      /\ fs.created[i].watched # None => fs.created[i].watched # fs.created[j].watched

\* ---- responses and the archive

Responses == {"{analysis}", "not json"}

\* Claude Desktop (or anyone) saves a response document
save_response ==
  /\ \E id \in RequestIds, r \in Responses :
       /\ fs.responses[id] = Absent
       /\ fs' = [fs EXCEPT !.responses[id] = r, !.last = <<>>]
  /\ UNCHANGED notFs

\* check_response(request_id): the parsed response, None when there is
\* no response document or it cannot be parsed
check_response(b, id) ==
  IF b.responses[id] = Absent THEN None
  ELSE IF b.responses[id] = "not json" THEN None
  ELSE b.responses[id]

\* the requests list_pending_requests lists: a request document without a
\* response document
list_pending_requests(b) ==
  {id \in RequestIds : b.requests[id] # Absent /\ b.responses[id] = Absent}

\* the documents and folders of the bridge
BridgeFiles(b) == <<b.requests, b.analysis, b.responses, b.archive>>

\* shutil.move(request_dir, archive_dir) raises shutil.Error when
\* archive/<id>/<id> is already there
MoveNeverRaises(b, id) == FALSE

MoveRaises(b, id) ==
  /\ b.analysis[id] # Missing
  /\ b.archive[id] # Missing
  /\ b.archive[id][1].analysis # Missing

\* archive_completed(request_id)
archive_completed ==
  /\ \E id \in RequestIds :
       LET both == fs.requests[id] # Absent /\ fs.responses[id] # Absent
           call == [id |-> id, both |-> both, before |-> BridgeFiles(fs),
                    raised |-> both /\ MoveRaises(fs, id)]
           \* archive_dir.mkdir(exist_ok=True), then the two rename calls
           docs == IF fs.archive[id] = Missing
                   THEN [request |-> fs.requests[id],
                         response |-> fs.responses[id],
                         analysis |-> Missing]
                   ELSE [fs.archive[id][1] EXCEPT !.request = fs.requests[id],
                                                  !.response = fs.responses[id]]
       IN fs' = IF ~both THEN [fs EXCEPT !.last = <<call>>]
                ELSE IF fs.analysis[id] = Missing \/ MoveRaises(fs, id)
                THEN [fs EXCEPT !.requests[id] = Absent,
                                !.responses[id] = Absent,
                                !.archive[id] = Folder(docs),
                                !.last = <<call>>]
                ELSE [fs EXCEPT !.requests[id] = Absent,
                                !.responses[id] = Absent,
                                !.analysis[id] = Missing,
                                !.archive[id] =
                                  Folder([docs EXCEPT !.analysis = fs.analysis[id]]),
                                !.last = <<call>>]
  /\ UNCHANGED notFs

NextBridge ==
  \/ bridge_tick
  \/ create_help_request
  \/ bridge_create_automated_request
  \/ save_response
  \/ archive_completed

SpecBridge == InitBridge /\ [][NextBridge]_vars

\* what archive_completed(id) leaves when both documents were there: the
\* three moved into archive/<id>, gone from the request and response folders
Archived(b, c) ==
  /\ ~c.raised
  /\ b.archive[c.id] # Missing
  /\ b.archive[c.id][1].request = c.before[1][c.id]
  /\ b.archive[c.id][1].response = c.before[3][c.id]
  /\ b.archive[c.id][1].analysis = c.before[2][c.id]
  /\ b.requests[c.id] = Absent
  /\ b.responses[c.id] = Absent
  /\ b.analysis[c.id] = Missing
  /\ c.id \notin list_pending_requests(b)
  /\ check_response(b, c.id) = None

\* C40: archive_completed(id) moves the request document, the response
\* document and the analysis folder into archive/<id> when both documents
\* exist, and changes no file otherwise; after the archive the request is
\* not pending and check_response(id) gives None.
C40_ArchiveMovesAllOrNothing ==
  fs.last # <<>> =>
    LET c == fs.last[1]
    IN IF c.both THEN Archived(fs, c)
       ELSE ~c.raised /\ BridgeFiles(fs) = c.before

\* The same for an id that was not archived before.
ArchiveOfFreshIdMovesAll ==
  fs.last # <<>> /\ fs.last[1].before[4][fs.last[1].id] = Missing =>
    LET c == fs.last[1]
    IN IF c.both THEN Archived(fs, c)
       ELSE ~c.raised /\ BridgeFiles(fs) = c.before


\* ---------------------------------------------------------------------
\* CheckpointManager.rollback on a checkpoint that was damaged on disk

\* between create_checkpoint and rollback the checkpoint directory is
\* removed, its metadata.json is removed or made unparsable, or a stored
\* copy is deleted
damage_checkpoint ==
  /\ cpm.pc = "work"
  /\ \/ /\ cpm.damage = None
        /\ \E d \in {"no directory", "no manifest", "bad manifest"} :
             cpm' = [cpm EXCEPT !.damage = d]
     \/ \E b \in Basenames :
          /\ cpm.dir[b] # Absent
          /\ cpm' = [cpm EXCEPT !.dir[b] = Absent]
  /\ UNCHANGED <<fs, notCpm>>

NextRollback ==
  \/ create_checkpoint
  \/ change_file
  \/ damage_checkpoint
  \/ rollback_start
  \/ rollback_restore
  \/ rollback_delete

SpecRollback == InitCheckpoint /\ [][NextRollback]_vars

\* the recorded files whose stored copy is missing
MissingCopies ==
  {k \in 1..Len(cpm.metadata) : cpm.dir[cpm.metadata[k].backup_name] = Absent}

\* C39, as stated: rollback returns false and changes no file when the
\* checkpoint directory or a readable manifest is not there; it returns true
\* when the manifest was read and nothing raised; the original of a missing
\* stored copy is left as it is.
C39_AsStated ==
  cpm.pc = "done" =>
    /\ cpm.damage # None =>
         cpm.rolled_back = Returned(FALSE) /\ fs.content = cpm.at_rollback
    /\ (cpm.damage = None /\ cpm.failed = {}) => cpm.rolled_back = Returned(TRUE)
    /\ cpm.rolled_back = Returned(TRUE) =>
         \A k \in MissingCopies :
           fs.content[cpm.metadata[k].original_path]
             = cpm.at_rollback[cpm.metadata[k].original_path]

\* C39, amended: the same, and the original of a missing stored copy is left
\* as it is unless new_files names it, in which case it is deleted.
C39_RollbackOfDamagedCheckpoint ==
  cpm.pc = "done" =>
    /\ cpm.damage # None =>
         cpm.rolled_back = Returned(FALSE) /\ fs.content = cpm.at_rollback
    /\ (cpm.damage = None /\ cpm.failed = {}) => cpm.rolled_back = Returned(TRUE)
    /\ cpm.rolled_back = Returned(TRUE) =>
         \A k \in MissingCopies :
           fs.content[cpm.metadata[k].original_path]
             = IF cpm.metadata[k].original_path \in NewFilePaths THEN Absent
               ELSE cpm.at_rollback[cpm.metadata[k].original_path]

\* a rollback that returned true although a stored copy was missing, the
\* original keeping the content it was given after the checkpoint
C39_Witness ==
  /\ cpm.pc = "done"
  /\ cpm.rolled_back = Returned(TRUE)
  /\ \E k \in MissingCopies :
       /\ cpm.metadata[k].original_path \notin NewFilePaths
       /\ fs.content[cpm.metadata[k].original_path] # cpm.at_checkpoint[cpm.metadata[k].original_path]

\* a rollback of a checkpoint without directory or manifest, asked to
\* delete a file that exists
RollbackAbortedReached ==
  /\ cpm.pc = "done"
  /\ cpm.damage # None
  /\ \E p \in NewFilePaths : fs.content[p] # Absent


\* ---------------------------------------------------------------------
\* retry_on_error for every max_retries

\* C38, as stated: for every max_retries, 0 included, retry_on_error
\* invokes the operation at least once, and what it returns or raises is
\* what a call of the operation returned or raised.
C38_OperationIsInvoked ==
  retry.pc = "done" =>
    /\ Len(retry.outcomes) >= 1
    /\ \E i \in 1..Len(retry.outcomes) :
         retry.ret = IF retry.outcomes[i] = FuncValue
                       THEN Returned(FuncValue)
                       ELSE Raises(retry.outcomes[i])

\* The same for max_retries >= 1: the outcome is the last call's.
OutcomeIsTheLastCalls ==
  (retry.pc = "done" /\ retry.max_retries >= 1) =>
    LET n == Len(retry.outcomes) IN
    /\ n >= 1
    /\ retry.ret = IF retry.outcomes[n] = FuncValue
                     THEN Returned(FuncValue)
                     ELSE Raises(retry.outcomes[n])


\* ---------------------------------------------------------------------
\* run_automated_workflow: cancel() while the launch is running

\* the positions of the client thread inside launch_with_retry
LaunchPcs == {"lwr_for", "lwr_launch", "wur_start", "wur_loop", "wur_check",
              "wur_sleep", "lwr_retry", "lwr_sleep"}

\* a step that sets the flag while the client is inside launch_with_retry
\* leaves the launch where it is: its position, its loop variable, its
\* attempts so far, its sleep and its return value
CancelLeavesTheLaunch ==
  (pc \in LaunchPcs /\ ~cancelled /\ cancelled') =>
    UNCHANGED <<pc, attempt, attempts, calls, now, wake, start_time, lwr_ret>>

\* launch_with_retry, cancelled or not, gives up only after max_retries
\* attempts and succeeds only with an attempt that found the app ready
LaunchRunsToItsEnd ==
  (entry = "workflow" /\ lwr_ret # NotReturned) =>
    IF lwr_ret = Returned(TRUE)
      THEN attempts # <<>> /\ attempts[Len(attempts)].ready
      ELSE /\ Len(attempts) = config.max_retries
           /\ \A i \in 1..Len(attempts) : ~attempts[i].ready

\* a workflow whose monitor was cancelled before wait_for_response was
\* called and whose launch succeeded: no existence check, status timeout
CancelledBeforeWaitTimesOut ==
  (WorkflowReturned /\ wfr_hist.cancel_pc = "before" /\ LaunchSucceeded) =>
    /\ polls = <<>>
    /\ wfr_hist.sleeps = 0
    /\ wfr_ret = Returned(FALSE)
    /\ result = TimeoutResult(request_id)

\* C37: cancel() on the workflow's bound monitor while launch_with_retry
\* runs does not interrupt or shorten the launch; if the launch then
\* succeeds, wait_for_response returns false at its first iteration without
\* an existence check and the workflow returns timeout, even when the
\* response file exists.
C37_CancelDuringLaunch ==
  /\ [](LaunchRunsToItsEnd /\ CancelledBeforeWaitTimesOut)
  /\ [][CancelLeavesTheLaunch]_vars

\* the launch succeeded at its second attempt with the flag set, the
\* response file is there, and the workflow returned timeout
C37_Witness ==
  /\ WorkflowReturned
  /\ wfr_hist.cancel_pc = "before"
  /\ Len(attempts) = 2
  /\ LaunchSucceeded
  /\ file # Absent
  /\ polls = <<>>
  /\ result.status = "timeout"

\* the flag set while the launch sleeps between two attempts
CancelledInsideLaunch == pc = "lwr_sleep" /\ cancelled /\ Len(attempts) = 1


\* ---------------------------------------------------------------------
\* ProposalExecutor: the names of the backups apply_all_code_files makes

\* backup_name = f"{source_path.stem}_{timestamp}{source_path.suffix}":
\* the file's name without its directory, and the second of the clock
backup_name(source_path, timestamp) == <<Basename(source_path), timestamp>>

BackupNames ==
  {backup_name(p, t) : p \in Paths, t \in {"20250101_120000", "20250101_120001"}}

InitBackups ==
  /\ WorkflowUnused
  /\ fs \in FileSystems
  /\ pex \in [code_files : CodeFiles,
              pc : {"for"},
              i : {1},
              results : {<<>>},
              ret : {NotReturned},
              clock : {"20250101_120000"},
              backup_dir : {[n \in BackupNames |-> Absent]},
              before : {fs.content},  \* history: the files at the call
              made : {<<>>}]          \* history: the backups that succeeded,
                                      \* each [of, name, pass, content]
  /\ cls = Unused /\ retry = Unused /\ conf = Unused /\ cpm = Unused

\* the clock moves on to the next second between two passes of the loop
backup_tick ==
  /\ pex.pc = "for"
  /\ pex.clock # NextSecond(pex.clock)
  /\ pex' = [pex EXCEPT !.clock = NextSecond(@)]
  /\ UNCHANGED <<fs, notPex>>

\* one pass of the loop of apply_all_code_files: create_backup of a target
\* that exists (its write_text may raise, which create_backup catches), then
\* the write of the target
aacf_apply_named ==
  /\ pex.pc = "for"
  /\ pex.i <= Len(pex.code_files)
  /\ \E backup_written \in BOOLEAN :
       LET file_path == pex.code_files[pex.i].path
           content == pex.code_files[pex.i].content
           written == Writable(file_path)
           backed_up == exists(file_path) /\ backup_written
           name == backup_name(file_path, pex.clock)
       IN /\ fs' = IF written THEN [fs EXCEPT !.content[file_path] = content] ELSE fs
          /\ pex' = [pex EXCEPT
               !.backup_dir = IF backed_up
                                THEN [@ EXCEPT ![name] = fs.content[file_path]]
                                ELSE @,
               !.made = IF backed_up
                          THEN Append(@, [of |-> file_path, name |-> name,
                                          pass |-> pex.i,
                                          content |-> fs.content[file_path]])
                          ELSE @,
               !.results = Append(@, apply_code_file_returns(written)),
               !.i = @ + 1]
  /\ UNCHANGED notPex

NextBackups ==
  \/ backup_tick
  \/ aacf_apply_named
  \/ aacf_return

SpecBackups == InitBackups /\ [][NextBackups]_vars

\* C36, as stated: after apply_all_code_files has returned, the backup of
\* every target that existed before the call and was backed up still holds
\* the content the target had before the call, and no backup made during
\* the call was overwritten by another.
C36_BackupsAreKept ==
  pex.ret # NotReturned =>
    \A k \in 1..Len(pex.made) :
      /\ pex.backup_dir[pex.made[k].name] = pex.made[k].content
      /\ (\A j \in 1..(pex.made[k].pass - 1) :
            pex.code_files[j].path # pex.made[k].of) =>
           pex.backup_dir[pex.made[k].name] = pex.before[pex.made[k].of]

\* The same when no two backups of the call fall into the same second.
BackupsOfDifferentSecondsAreKept ==
  (/\ pex.ret # NotReturned
   /\ \A j, k \in 1..Len(pex.made) :
        j # k => pex.made[j].name[2] # pex.made[k].name[2]) =>
    \A k \in 1..Len(pex.made) :
      pex.backup_dir[pex.made[k].name] = pex.made[k].content

====
